---- MODULE Spec2Model ----
(***************************************************************************)
(* A model of the request handlers of the social network API               *)
(* (src/app/routers/*.py) over the relational store declared in            *)
(* src/app/models.py.                                                      *)
(*                                                                         *)
(* Every request runs in one session (src/app/database.py get_session):    *)
(* its SELECTs read the committed rows (and the rows the session itself    *)
(* has flushed), session.add() only registers a row, flush() sends the     *)
(* INSERT/UPDATE to the store where the table's UNIQUE constraints are     *)
(* enforced, and the rows become visible to the other sessions when the    *)
(* session commits.  A handler that raises is rolled back.  The steps of   *)
(* concurrent requests interleave at each awaited store call.              *)
(***************************************************************************)
EXTENDS Integers, Sequences, FiniteSets, TLC

VARIABLES
    users,          \* table users            (models.py User)
    groups,         \* table groups           (models.py Group)
    memberships,    \* table group_memberships
    events,         \* table events
    organizers,     \* table event_organizers
    participants,   \* table event_participants
    polls,          \* table polls
    questions,      \* table poll_questions
    options,        \* table poll_options
    votes,          \* table poll_votes
    ticket_types,   \* table ticket_types
    tickets,        \* table tickets
    shopping_items, \* table shopping_list_items
    carpool_offers, \* table carpool_offers
    threads,        \* table discussion_threads
    messages,       \* table messages
    photo_albums,   \* table photo_albums
    photos,         \* table photos
    photo_comments, \* table photo_comments
    seq,            \* last id handed out per table (autoincrement primary keys)
    req,            \* the requests in flight: one session each
    started,        \* number of requests started so far
    last            \* the last response sent, and the request it answers

tables == <<users, groups, memberships, events, organizers, participants,
            polls, questions, options, votes, ticket_types, tickets,
            shopping_items, carpool_offers, threads, messages,
            photo_albums, photos, photo_comments>>
vars == <<users, groups, memberships, events, organizers, participants,
          polls, questions, options, votes, ticket_types, tickets,
          shopping_items, carpool_offers, threads, messages,
          photo_albums, photos, photo_comments,
          seq, req, started, last>>

(***************************************************************************)
(* Bounds of the model.                                                    *)
(***************************************************************************)
MaxRequests == 3        \* requests started in one behaviour
MaxQuantity == 2        \* largest quantity of a ticket type
MaxTicketTypes == 1     \* ticket types created in one behaviour
MaxGroups == 1          \* groups created in one behaviour
MaxEvents == 1          \* events created in one behaviour
MaxEntries == 2         \* entries of one list of votes
MaxPolls == 2        \* polls created by create_poll
MaxQuestions == 2    \* questions of a create_poll payload
MaxOptions == 2      \* options of a question of a create_poll payload
MaxThreads == 3      \* threads stored, the two initial ones included
MaxMessages == 2     \* messages stored, the initial one included
MaxGuardRequests == 2   \* requests started in one behaviour of SpecGuards
MaxWall == 2            \* latest wall clock time of a date of a payload

Sessions == {1, 2}                  \* requests that can be in flight together
UserIds == {1, 2, 3}                \* ids a request can name as a user

(***************************************************************************)
(* The session of a request.                                               *)
(***************************************************************************)
\* Flushed, uncommitted work of a session: inserted rows <<table, row>>,
\* column updates <<table, id, column, value>> and deletes <<table, id>>.
EmptyTx == [ins |-> {}, upd |-> {}, del |-> {}]

NoRes == [code |-> 0, detail |-> ""]
NoRow == [id |-> 0]
NoArgs == [ticket_type_id |-> 0, purchaser_email |-> "", event_id |-> 0,
           quantity |-> 0, group_id |-> 0, user_id |-> 0,
           is_admin |-> FALSE, can_create_events |-> FALSE,
           organizer_ids |-> <<>>, poll_id |-> 0, votes |-> <<>>,
           name |-> "", questions |-> <<>>, context |-> "", thread_id |-> 0,
           parent_id |-> 0,
           token |-> [sub |-> "", signature |-> "", expired |-> FALSE],
           username |-> "", password |-> "",
           start_date |-> [wall |-> 0, utcoffset |-> -1],
           end_date |-> [wall |-> 0, utcoffset |-> -1],
           album_id |-> 0, photo_id |-> 0]
NoLoc == [sold_count |-> 0, group_id |-> 0, membership |-> NoRow,
          event_id |-> 0, organizer_ids |-> {}, added |-> {},
          loaded |-> {}, dirty |-> {}, pending |-> <<>>,
          poll_id |-> 0, todo |-> 0, unsent |-> {}, thread |-> NoRow,
          option_votes |-> {}, organizers |-> {}, participants |-> {},
          album_id |-> 0]

Idle == [op |-> "none", pc |-> "idle", actor |-> 0, a |-> NoArgs,
         loc |-> NoLoc, tx |-> EmptyTx, res |-> NoRes]

InFlight(r) == req[r].pc # "idle"

\* The response to request r.
Response(r, res) ==
    [op |-> req[r].op, actor |-> req[r].actor, a |-> req[r].a, res |-> res]
NoResponse == [op |-> "none", actor |-> 0, a |-> NoArgs, res |-> NoRes]

\* A request slot is free and the budget of requests is not used up.  The
\* sessions are interchangeable: a new request takes the first free slot.
CanStart(r) ==
    /\ ~InFlight(r) /\ started < MaxRequests
    /\ \A o \in Sessions : o < r => InFlight(o)

Begin(r, op, actor, args, pc) ==
    [op |-> op, pc |-> pc, actor |-> actor, a |-> args,
     loc |-> NoLoc, tx |-> EmptyTx, res |-> NoRes]

\* The rows of `tbl` a session has flushed and not yet committed.
Inserted(tx, tbl) == {p[2] : p \in {q \in tx.ins : q[1] = tbl}}

\* The content of table `tbl` once `tx` is committed on top of `rows`.
Apply(tx, tbl, rows) ==
    LET kept == {x \in rows : <<tbl, x.id>> \notin tx.del}
        set(x, c) == {u \in tx.upd : u[1] = tbl /\ u[2] = x.id /\ u[3] = c}
        updated(x) == [c \in DOMAIN x |->
                         IF set(x, c) = {} THEN x[c]
                         ELSE (CHOOSE u \in set(x, c) : TRUE)[4]]
    IN  {updated(x) : x \in kept} \cup Inserted(tx, tbl)

\* get_session: the handler raised, the session is rolled back and the error
\* is the response.
Raise(r, code, detail) ==
    /\ req' = [req EXCEPT ![r] = Idle]
    /\ last' = Response(r, [code |-> code, detail |-> detail])

commit_on_error(r, code, detail) ==
    /\ Raise(r, code, detail)
    /\ users' = Apply(req[r].tx, "users", users)
    /\ groups' = Apply(req[r].tx, "groups", groups)
    /\ memberships' = Apply(req[r].tx, "memberships", memberships)
    /\ events' = Apply(req[r].tx, "events", events)
    /\ organizers' = Apply(req[r].tx, "organizers", organizers)
    /\ participants' = Apply(req[r].tx, "participants", participants)
    /\ polls' = Apply(req[r].tx, "polls", polls)
    /\ questions' = Apply(req[r].tx, "questions", questions)
    /\ options' = Apply(req[r].tx, "options", options)
    /\ votes' = Apply(req[r].tx, "votes", votes)
    /\ ticket_types' = Apply(req[r].tx, "ticket_types", ticket_types)
    /\ tickets' = Apply(req[r].tx, "tickets", tickets)
    /\ shopping_items' = Apply(req[r].tx, "shopping_items", shopping_items)
    /\ carpool_offers' = Apply(req[r].tx, "carpool_offers", carpool_offers)
    /\ threads' = Apply(req[r].tx, "threads", threads)
    /\ messages' = Apply(req[r].tx, "messages", messages)
    /\ photo_albums' = Apply(req[r].tx, "photo_albums", photo_albums)
    /\ photos' = Apply(req[r].tx, "photos", photos)
    /\ photo_comments' = Apply(req[r].tx, "photo_comments", photo_comments)
    /\ UNCHANGED <<seq, started>>
\* HTTPException(status_code, detail) raised by a handler that wrote nothing
\* to the tables in this step.
HTTPException(r, code, detail) ==
    /\ Raise(r, code, detail)
    /\ UNCHANGED <<tables, seq, started>>

Goto(r, pc) == req' = [req EXCEPT ![r].pc = pc] /\ UNCHANGED last

\* get_session: the handler returned, the session commits and its rows become
\* visible to every other session.
session_commit(r) ==
    /\ req[r].pc = "commit"
    /\ users' = Apply(req[r].tx, "users", users)
    /\ groups' = Apply(req[r].tx, "groups", groups)
    /\ memberships' = Apply(req[r].tx, "memberships", memberships)
    /\ events' = Apply(req[r].tx, "events", events)
    /\ organizers' = Apply(req[r].tx, "organizers", organizers)
    /\ participants' = Apply(req[r].tx, "participants", participants)
    /\ polls' = Apply(req[r].tx, "polls", polls)
    /\ questions' = Apply(req[r].tx, "questions", questions)
    /\ options' = Apply(req[r].tx, "options", options)
    /\ votes' = Apply(req[r].tx, "votes", votes)
    /\ ticket_types' = Apply(req[r].tx, "ticket_types", ticket_types)
    /\ tickets' = Apply(req[r].tx, "tickets", tickets)
    /\ shopping_items' = Apply(req[r].tx, "shopping_items", shopping_items)
    /\ carpool_offers' = Apply(req[r].tx, "carpool_offers", carpool_offers)
    /\ threads' = Apply(req[r].tx, "threads", threads)
    /\ messages' = Apply(req[r].tx, "messages", messages)
    /\ photo_albums' = Apply(req[r].tx, "photo_albums", photo_albums)
    /\ photos' = Apply(req[r].tx, "photos", photos)
    /\ photo_comments' = Apply(req[r].tx, "photo_comments", photo_comments)
    /\ req' = [req EXCEPT ![r] = Idle]
    /\ last' = Response(r, req[r].res)
    /\ UNCHANGED <<seq, started>>

\* Optional[int] = None: the value of an optional id that is not given.
None == -1
\* "not x" of Python for an Optional[int]: None and 0 are false.
falsy(x) == x = None \/ x = 0

\* A datetime: the wall clock time and the offset of its time zone from UTC
\* (None for a naive datetime, which has no time zone).
datetime(wall, utcoffset) == [wall |-> wall, utcoffset |-> utcoffset]

validate_instants_only(start_date, end_date) ==
    IF start_date.utcoffset = None \/ end_date.utcoffset = None THEN "ok"
    ELSE IF end_date.wall - end_date.utcoffset
                <= start_date.wall - start_date.utcoffset
         THEN "end_date must be after start_date" ELSE "ok"
\* EventBase.validate_dates, of the payload (EventCreate) and of the response
\* (EventRead): "if data.end_date <= data.start_date: raise ValueError".
\* Two aware datetimes compare as instants, two naive ones as wall clock
\* times, and comparing a naive with an aware one raises TypeError.
validate_dates(start_date, end_date) ==
    IF (start_date.utcoffset = None) # (end_date.utcoffset = None)
    THEN "TypeError"
    ELSE IF start_date.utcoffset = None
    THEN IF end_date.wall <= start_date.wall
         THEN "end_date must be after start_date" ELSE "ok"
    ELSE IF end_date.wall - end_date.utcoffset
                <= start_date.wall - start_date.utcoffset
         THEN "end_date must be after start_date" ELSE "ok"

\* Event(...) of create_event: toggles are the payload's four flags.  The
\* events that exist before the requests run from 1 to 2.
Event(id, created_by_id, group_id, toggles) ==
    [id |-> id, created_by_id |-> created_by_id, group_id |-> group_id,
     start_date |-> datetime(1, None), end_date |-> datetime(2, None),
     carpool_enabled |-> toggles.carpool_enabled,
     shopping_list_enabled |-> toggles.shopping_list_enabled,
     billetterie_enabled |-> toggles.billetterie_enabled,
     polls_enabled |-> toggles.polls_enabled]
AllOn == [carpool_enabled |-> TRUE, shopping_list_enabled |-> TRUE,
          billetterie_enabled |-> TRUE, polls_enabled |-> TRUE]
Defaults == [carpool_enabled |-> FALSE, shopping_list_enabled |-> FALSE,
             billetterie_enabled |-> FALSE, polls_enabled |-> TRUE]

(***************************************************************************)
(* Ticketing (src/app/routers/tickets.py).                                 *)
(***************************************************************************)
Row(tbl, id) == CHOOSE x \in tbl : x.id = id

\* get_current_user: the bearer token names an existing user.
authenticated(user_id) == \E u \in users : u.id = user_id

\* _get_event: the outcome of looking an event up for ticketing.
get_event(event_id) ==
    IF ~\E e \in events : e.id = event_id THEN "Event not found"
    ELSE IF ~Row(events, event_id).billetterie_enabled
         THEN "Ticketing not enabled for this event"
         ELSE "ok"

is_event_member(event_id, user_id) ==
    \/ \E o \in organizers : o.event_id = event_id /\ o.user_id = user_id
    \/ \E p \in participants : p.event_id = event_id /\ p.user_id = user_id
\* _ensure_organizer / _ensure_event_organizer: an organizer row exists.
is_organizer(event_id, user_id) ==
    \E o \in organizers : o.event_id = event_id /\ o.user_id = user_id

\* create_ticket_type: one request, run to its commit in one step (its reads
\* are of events and organizers, which no ticketing request writes).
create_ticket_type(actor, event_id, quantity) ==
    /\ started < MaxRequests
    /\ authenticated(actor)
    /\ Cardinality(ticket_types) < MaxTicketTypes
    /\ started' = started + 1
    /\ LET response(code, detail) ==
               [op |-> "create_ticket_type", actor |-> actor,
                a |-> [NoArgs EXCEPT !.event_id = event_id,
                                     !.quantity = quantity],
                res |-> [code |-> code, detail |-> detail]]
           fail(code, detail) ==
               /\ last' = response(code, detail)
               /\ UNCHANGED <<tables, seq, req>>
       IN  IF get_event(event_id) = "Event not found"
           THEN fail(404, get_event(event_id))
           ELSE IF get_event(event_id) # "ok"
           THEN fail(400, get_event(event_id))
           ELSE IF ~is_organizer(event_id, actor)
           THEN fail(403, "Organizer privileges required")
           ELSE /\ seq' = [seq EXCEPT !["ticket_types"] = @ + 1]
                /\ ticket_types' = ticket_types \cup
                       {[id |-> seq'["ticket_types"], event_id |-> event_id,
                         quantity |-> quantity]}
                /\ last' = response(201, "")
                /\ UNCHANGED <<users, groups, memberships, events, organizers,
                               participants, polls, questions, options, votes,
                               tickets, shopping_items, carpool_offers,
                               threads, messages, photo_albums, photos,
                               photo_comments, req>>

\* purchase_ticket is called: no authenticated actor.
purchase_ticket(r, ticket_type_id, purchaser_email) ==
    /\ CanStart(r)
    /\ started' = started + 1
    /\ req' = [req EXCEPT ![r] =
                 Begin(r, "purchase_ticket", 0,
                       [NoArgs EXCEPT !.ticket_type_id = ticket_type_id,
                                      !.purchaser_email = purchaser_email],
                       "get_ticket_type")]
    /\ UNCHANGED <<tables, seq, last>>

\* _get_ticket_type: the ticket type, then its event through _get_event.
\* Ticket types and events are never updated or deleted, so the two reads
\* are one step.
get_ticket_type(r) ==
    /\ req[r].op = "purchase_ticket" /\ req[r].pc = "get_ticket_type"
    /\ LET id == req[r].a.ticket_type_id
       IN  IF ~\E t \in ticket_types : t.id = id
           THEN HTTPException(r, 404, "Ticket type not found")
           ELSE LET found == get_event(Row(ticket_types, id).event_id)
                IN  IF found = "Event not found" THEN HTTPException(r, 404, found)
                    ELSE IF found # "ok" THEN HTTPException(r, 400, found)
                    ELSE Goto(r, "count_sold") /\ UNCHANGED <<tables, seq, started>>

\* The rows a SELECT on tickets sees in session r: the committed rows and the
\* rows r flushed itself.
visible_tickets(r) == tickets \cup Inserted(req[r].tx, "tickets")

sold_out_off_by_one(sold_count, quantity) == sold_count > quantity
\* if sold_count >= ticket_type.quantity
sold_out(sold_count, quantity) == sold_count >= quantity

\* purchase_ticket: "Check availability".
count_sold(r) ==
    /\ req[r].op = "purchase_ticket" /\ req[r].pc = "count_sold"
    /\ LET id == req[r].a.ticket_type_id
           sold_count == Cardinality({t \in visible_tickets(r) :
                                          t.ticket_type_id = id})
       IN  IF sold_out(sold_count, Row(ticket_types, id).quantity)
           THEN HTTPException(r, 400, "No more tickets available")
           ELSE /\ req' = [req EXCEPT ![r].pc = "check_email",
                                      ![r].loc.sold_count = sold_count]
                /\ UNCHANGED <<tables, seq, started, last>>

has_ticket_any_email(rows, ticket_type_id, purchaser_email) ==
    \E t \in rows : t.ticket_type_id = ticket_type_id
\* select(Ticket).where(ticket_type_id == ..., purchaser_email == ...)
has_ticket(rows, ticket_type_id, purchaser_email) ==
    \E t \in rows : /\ t.ticket_type_id = ticket_type_id
                    /\ t.purchaser_email = purchaser_email

\* purchase_ticket: "Ensure single ticket per person for this type".
check_email(r) ==
    /\ req[r].op = "purchase_ticket" /\ req[r].pc = "check_email"
    /\ IF has_ticket(visible_tickets(r), req[r].a.ticket_type_id,
                     req[r].a.purchaser_email)
       THEN HTTPException(r, 400, "This attendee already has a ticket")
       ELSE Goto(r, "insert") /\ UNCHANGED <<tables, seq, started>>

\* session.add(ticket); flush(): the INSERT.  Table tickets declares no
\* UNIQUE constraint (models.py Ticket), so the INSERT always goes through.
insert_ticket(r) ==
    /\ req[r].op = "purchase_ticket" /\ req[r].pc = "insert"
    /\ seq' = [seq EXCEPT !["tickets"] = @ + 1]
    /\ req' = [req EXCEPT
                 ![r].pc = "commit",
                 ![r].res = [code |-> 201, detail |-> ""],
                 ![r].tx.ins = @ \cup
                     {<<"tickets",
                        [id |-> seq'["tickets"],
                         ticket_type_id |-> req[r].a.ticket_type_id,
                         purchaser_email |-> req[r].a.purchaser_email]>>}]
    /\ UNCHANGED <<tables, started, last>>

\* One step of request r of the ticketing endpoints.
TicketStep(r) ==
    \/ \E t \in {1, 2}, m \in {"a@x.org", "b@x.org"} : purchase_ticket(r, t, m)
    \/ get_ticket_type(r)
    \/ count_sold(r)
    \/ check_email(r)
    \/ insert_ticket(r)
    \/ session_commit(r)

\* The store when the ticketing requests arrive: users 1 and 2 are
\* registered, user 1 has created event 1 with ticketing on and event 2 with
\* ticketing off (create_event makes the creator an organizer).
EmptySeq ==
    [t \in {"users", "groups", "memberships", "events", "organizers",
            "participants", "polls", "questions", "options", "votes",
            "ticket_types", "tickets", "shopping_items", "carpool_offers",
            "threads", "messages", "photo_albums", "photos",
            "photo_comments"} |-> 0]

TicketInit ==
    /\ users = {[id |-> 1], [id |-> 2]}
    /\ groups = {} /\ memberships = {}
    /\ events = {Event(1, 1, None, AllOn), Event(2, 1, None, Defaults)}
    /\ organizers = {[id |-> 1, event_id |-> 1, user_id |-> 1],
                     [id |-> 2, event_id |-> 2, user_id |-> 1]}
    /\ participants = {}
    /\ polls = {} /\ questions = {} /\ options = {} /\ votes = {}
    /\ ticket_types = {} /\ tickets = {}
    /\ shopping_items = {} /\ carpool_offers = {}
    /\ threads = {} /\ messages = {}
    /\ photo_albums = {} /\ photos = {} /\ photo_comments = {}
    /\ seq = [EmptySeq EXCEPT !["users"] = 2, !["events"] = 2,
                              !["organizers"] = 2]
    /\ req = [r \in Sessions |-> Idle]
    /\ started = 0
    /\ last = NoResponse

\* Requests interleave at their store calls.
SpecTickets ==
    TicketInit /\ [][
        \/ \E actor \in UserIds, e \in {1, 2, 3}, q \in 0..MaxQuantity :
               create_ticket_type(actor, e, q)
        \/ \E r \in Sessions : TicketStep(r)
    ]_vars

\* Requests run one after another: a request takes a step only while no
\* other request is in flight.
Alone(r) == \A o \in Sessions \ {r} : ~InFlight(o)
SpecTicketsSeq ==
    TicketInit /\ [][
        \/ /\ \A o \in Sessions : ~InFlight(o)
           /\ \E actor \in UserIds, e \in {1, 2, 3}, q \in 0..MaxQuantity :
                  create_ticket_type(actor, e, q)
        \/ \E r \in Sessions : Alone(r) /\ TicketStep(r)
    ]_vars

(***************************************************************************)
(* Groups (src/app/routers/groups.py).                                     *)
(***************************************************************************)
\* The rows a SELECT of session r sees in a table: the committed rows with
\* the session's own flushed work.
Visible(r, tbl, rows) == Apply(req[r].tx, tbl, rows)

\* A flushed row of another session in flight that a row of r would wait for.
OthersInserted(r, tbl) ==
    UNION {Inserted(req[o].tx, tbl) : o \in Sessions \ {r}}
OthersWrote(r, tbl, id) ==
    \E o \in Sessions \ {r} :
        \/ \E u \in req[o].tx.upd : u[1] = tbl /\ u[2] = id
        \/ <<tbl, id>> \in req[o].tx.del

membership_of(rows, group_id, user_id) ==
    {m \in rows : m.group_id = group_id /\ m.user_id = user_id}

unique_membership_dropped(row, rows) == TRUE
\* UniqueConstraint("group_id", "user_id") on group_memberships: `row` can be
\* inserted beside `rows`.
unique_membership(row, rows) ==
    membership_of(rows, row.group_id, row.user_id) = {}

\* flush() of a new membership: the INSERT fails on the UNIQUE constraint
\* (IntegrityError, which no handler catches: the session is rolled back and
\* the response is a 500) and waits for a session that holds an uncommitted
\* row of the same key.
flush_membership(r, group_id, user_id, is_admin, can_create_events) ==
    LET row == [id |-> seq["memberships"] + 1, group_id |-> group_id,
                user_id |-> user_id, is_admin |-> is_admin,
                can_create_events |-> can_create_events]
    IN  /\ unique_membership(row, OthersInserted(r, "memberships"))
        /\ IF unique_membership(row, Visible(r, "memberships", memberships))
           THEN /\ seq' = [seq EXCEPT !["memberships"] = @ + 1]
                /\ req' = [req EXCEPT
                             ![r].pc = "commit",
                             ![r].res = [code |-> 201, detail |-> ""],
                             ![r].tx.ins = @ \cup {<<"memberships", row>>}]
                /\ UNCHANGED <<tables, started, last>>
           ELSE HTTPException(r, 500, "IntegrityError")

\* create_group is called.
create_group(r, actor) ==
    /\ CanStart(r)
    /\ authenticated(actor)
    /\ seq["groups"] + Cardinality({o \in Sessions :
            req[o].op = "create_group" /\ req[o].pc = "insert_group"}) < MaxGroups
    /\ started' = started + 1
    /\ req' = [req EXCEPT ![r] =
                 Begin(r, "create_group", actor, NoArgs, "insert_group")]
    /\ UNCHANGED <<tables, seq, last>>

\* create_group: session.add(group); flush().
insert_group(r) ==
    /\ req[r].op = "create_group" /\ req[r].pc = "insert_group"
    /\ seq' = [seq EXCEPT !["groups"] = @ + 1]
    /\ req' = [req EXCEPT
                 ![r].pc = "insert_membership",
                 ![r].loc.group_id = seq'["groups"],
                 ![r].tx.ins = @ \cup
                     {<<"groups", [id |-> seq'["groups"],
                                   created_by_id |-> req[r].actor]>>}]
    /\ UNCHANGED <<tables, started, last>>

insert_creator_as_plain_member(r) ==
    /\ req[r].op = "create_group" /\ req[r].pc = "insert_membership"
    /\ flush_membership(r, req[r].loc.group_id, req[r].actor, FALSE, FALSE)
\* create_group: the creator's membership, is_admin and can_create_events.
insert_creator_membership(r) ==
    /\ req[r].op = "create_group" /\ req[r].pc = "insert_membership"
    /\ flush_membership(r, req[r].loc.group_id, req[r].actor, TRUE, TRUE)

\* add_group_member is called; the flags of the payload are drawn where the
\* handler reads them (insert_membership).
add_group_member(r, actor, group_id, user_id) ==
    /\ CanStart(r)
    /\ authenticated(actor)
    /\ started' = started + 1
    /\ req' = [req EXCEPT ![r] =
                 Begin(r, "add_group_member", actor,
                       [NoArgs EXCEPT !.group_id = group_id, !.user_id = user_id],
                       "ensure_admin")]
    /\ UNCHANGED <<tables, seq, last>>

\* update_group_member is called; the payload is drawn where the handler
\* reads it (flush_membership_update).
update_group_member(r, actor, group_id, user_id) ==
    /\ CanStart(r)
    /\ authenticated(actor)
    /\ started' = started + 1
    /\ req' = [req EXCEPT ![r] =
                 Begin(r, "update_group_member", actor,
                       [NoArgs EXCEPT !.group_id = group_id, !.user_id = user_id],
                       "ensure_admin")]
    /\ UNCHANGED <<tables, seq, last>>

\* remove_group_member is called.
remove_group_member(r, actor, group_id, user_id) ==
    /\ CanStart(r)
    /\ authenticated(actor)
    /\ started' = started + 1
    /\ req' = [req EXCEPT ![r] =
                 Begin(r, "remove_group_member", actor,
                       [NoArgs EXCEPT !.group_id = group_id, !.user_id = user_id],
                       "ensure_admin")]
    /\ UNCHANGED <<tables, seq, last>>

not_group_member(found) == found = {}
\* if not membership or not membership.is_admin
not_group_admin(found) == found = {} \/ \E m \in found : ~m.is_admin

ensure_group_admin_enrols(r) ==
    /\ req[r].op \in {"add_group_member", "update_group_member",
                      "remove_group_member"}
    /\ req[r].pc = "ensure_admin"
    /\ LET found == membership_of(Visible(r, "memberships", memberships),
                                  req[r].a.group_id, req[r].actor)
       IN  IF found = {}
           THEN /\ Raise(r, 403, "Administrator privileges required")
                /\ memberships' = memberships \cup
                       {[id |-> seq["memberships"] + 1,
                         group_id |-> req[r].a.group_id,
                         user_id |-> req[r].actor, is_admin |-> FALSE,
                         can_create_events |-> FALSE]}
                /\ UNCHANGED <<users, groups, events, organizers,
                               participants, polls, questions, options, votes,
                               ticket_types, tickets, shopping_items,
                               carpool_offers, threads, messages,
                               photo_albums, photos, photo_comments,
                               seq, started>>
           ELSE IF not_group_admin(found)
           THEN HTTPException(r, 403, "Administrator privileges required")
           ELSE /\ Goto(r, IF req[r].op = "add_group_member"
                           THEN "check_existing" ELSE "load_membership")
                /\ UNCHANGED <<tables, seq, started>>

\* _ensure_group_admin, the first store call of the three member handlers.
\* scalar_one_or_none() raises when the SELECT returns several rows.
ensure_group_admin(r) ==
    /\ req[r].op \in {"add_group_member", "update_group_member",
                      "remove_group_member"}
    /\ req[r].pc = "ensure_admin"
    /\ LET found == membership_of(Visible(r, "memberships", memberships),
                                  req[r].a.group_id, req[r].actor)
       IN  IF Cardinality(found) > 1
           THEN HTTPException(r, 500, "MultipleResultsFound")
           ELSE IF not_group_admin(found)
           THEN HTTPException(r, 403, "Administrator privileges required")
           ELSE /\ Goto(r, IF req[r].op = "add_group_member"
                           THEN "check_existing" ELSE "load_membership")
                /\ UNCHANGED <<tables, seq, started>>

\* add_group_member: the membership must not exist yet.
check_existing_member(r) ==
    /\ req[r].op = "add_group_member" /\ req[r].pc = "check_existing"
    /\ LET found == membership_of(Visible(r, "memberships", memberships),
                                  req[r].a.group_id, req[r].a.user_id)
       IN  IF Cardinality(found) > 1
           THEN HTTPException(r, 500, "MultipleResultsFound")
           ELSE IF found # {}
           THEN HTTPException(r, 400, "User already member")
           ELSE Goto(r, "check_user") /\ UNCHANGED <<tables, seq, started>>

\* add_group_member: the user to add must exist.
check_member_user(r) ==
    /\ req[r].op = "add_group_member" /\ req[r].pc = "check_user"
    /\ IF ~\E u \in Visible(r, "users", users) : u.id = req[r].a.user_id
       THEN HTTPException(r, 404, "User not found")
       ELSE Goto(r, "insert_membership") /\ UNCHANGED <<tables, seq, started>>

\* add_group_member: session.add(membership); flush().
insert_membership(r, is_admin, can_create_events) ==
    /\ req[r].op = "add_group_member" /\ req[r].pc = "insert_membership"
    /\ flush_membership(r, req[r].a.group_id, req[r].a.user_id,
                        is_admin, can_create_events)

\* update_group_member / remove_group_member: the membership to change.
\* remove_group_member marks it deleted (session.delete) and returns: the
\* DELETE is sent when the session commits.
load_membership(r) ==
    /\ req[r].op \in {"update_group_member", "remove_group_member"}
    /\ req[r].pc = "load_membership"
    /\ LET found == membership_of(Visible(r, "memberships", memberships),
                                  req[r].a.group_id, req[r].a.user_id)
       IN  IF Cardinality(found) > 1
           THEN HTTPException(r, 500, "MultipleResultsFound")
           ELSE IF found = {}
           THEN HTTPException(r, 404, "Membership not found")
           ELSE LET membership == CHOOSE m \in found : TRUE
                IN  /\ req' = [req EXCEPT
                          ![r].loc.membership = membership,
                          ![r].pc = IF req[r].op = "update_group_member"
                                    THEN "flush_update" ELSE "commit",
                          ![r].res = IF req[r].op = "update_group_member"
                                     THEN NoRes
                                     ELSE [code |-> 204, detail |-> ""],
                          ![r].tx.del = IF req[r].op = "update_group_member"
                                        THEN @
                                        ELSE @ \cup {<<"memberships", membership.id>>}]
                    /\ UNCHANGED <<tables, seq, started, last>>

\* update_group_member: the columns the payload changes on the loaded row.
patched(membership, column, value) ==
    IF value # "None" /\ membership[column] # (value = "True")
    THEN {<<"memberships", membership.id, column, value = "True">>}
    ELSE {}

\* update_group_member: the payload's is_admin and can_create_events are
\* "True", "False" or left out ("None"); flush() sends the UPDATE of the changed columns and
\* refresh() reads the row back; both fail when another session has deleted
\* the row meanwhile (StaleDataError / InvalidRequestError, a 500).
flush_membership_update(r, is_admin, can_create_events) ==
    /\ req[r].op = "update_group_member" /\ req[r].pc = "flush_update"
    /\ LET membership == req[r].loc.membership
       IN  /\ ~OthersWrote(r, "memberships", membership.id)
           /\ IF ~\E m \in memberships : m.id = membership.id
              THEN HTTPException(r, 500, "StaleDataError")
              ELSE /\ req' = [req EXCEPT
                        ![r].pc = "commit",
                        ![r].res = [code |-> 200, detail |-> ""],
                        ![r].tx.upd = @ \cup
                            patched(membership, "is_admin", is_admin) \cup
                            patched(membership, "can_create_events",
                                    can_create_events)]
                   /\ UNCHANGED <<tables, seq, started, last>>


\* One step of request r of the group endpoints.
GroupStep(r) ==
    \/ \E actor \in UserIds : create_group(r, actor)
    \/ \E actor \in UserIds, g \in (1..MaxGroups), u \in UserIds :
           add_group_member(r, actor, g, u)
    \/ \E actor \in UserIds, g \in (1..MaxGroups), u \in UserIds :
           update_group_member(r, actor, g, u)
    \/ \E actor \in UserIds, g \in (1..MaxGroups), u \in UserIds :
           remove_group_member(r, actor, g, u)
    \/ insert_group(r)
    \/ insert_creator_membership(r)
    \/ ensure_group_admin(r)
    \/ check_existing_member(r)
    \/ check_member_user(r)
    \/ \E is_admin \in BOOLEAN, can_create_events \in BOOLEAN :
           insert_membership(r, is_admin, can_create_events)
    \/ load_membership(r)
    \/ \E is_admin \in {"None", "True", "False"}, can_create_events \in {"None", "True", "False"} :
           flush_membership_update(r, is_admin, can_create_events)
    \/ session_commit(r)

\* The store when the group requests arrive: users 1 and 2 are registered
\* (id 3 names no user), nothing else exists.
GroupInit ==
    /\ users = {[id |-> 1], [id |-> 2]}
    /\ groups = {} /\ memberships = {}
    /\ events = {} /\ organizers = {} /\ participants = {}
    /\ polls = {} /\ questions = {} /\ options = {} /\ votes = {}
    /\ ticket_types = {} /\ tickets = {}
    /\ shopping_items = {} /\ carpool_offers = {}
    /\ threads = {} /\ messages = {}
    /\ photo_albums = {} /\ photos = {} /\ photo_comments = {}
    /\ seq = [EmptySeq EXCEPT !["users"] = 2]
    /\ req = [r \in Sessions |-> Idle]
    /\ started = 0
    /\ last = NoResponse

SpecGroups == GroupInit /\ [][\E r \in Sessions : GroupStep(r)]_vars

\* The group requests run one after another.
SpecGroupsSeq ==
    GroupInit /\ [][\E r \in Sessions : Alone(r) /\ GroupStep(r)]_vars

(***************************************************************************)
(* Events (src/app/routers/events.py).                                     *)
(***************************************************************************)
\* The rows of the two link tables of an event.
links(tbl) == IF tbl = "organizers" THEN organizers ELSE participants
link_of_user(rows, event_id, user_id) == {l \in rows : l.user_id = user_id}
link_of_event(rows, event_id, user_id) == {l \in rows : l.event_id = event_id}
link_of(rows, event_id, user_id) ==
    {l \in rows : l.event_id = event_id /\ l.user_id = user_id}

unique_organizer_dropped(row, rows) == TRUE
\* UniqueConstraint("event_id", "user_id") on event_organizers.
unique_organizer(row, rows) == link_of(rows, row.event_id, row.user_id) = {}

unique_participant_dropped(row, rows) == TRUE
\* UniqueConstraint("event_id", "user_id") on event_participants.
unique_participant(row, rows) == link_of(rows, row.event_id, row.user_id) = {}

unique_link(tbl, row, rows) ==
    IF tbl = "organizers" THEN unique_organizer(row, rows)
    ELSE unique_participant(row, rows)

\* create_event is called; group_id None is a payload without group_id, and
\* "if payload.group_id" skips the guard for group_id 0 as well.  The
\* rest of the payload is drawn where the handler reads it (insert_event).
create_event(r, actor, group_id, start_date, end_date) ==
    /\ CanStart(r)
    /\ authenticated(actor)
    /\ seq["events"] + Cardinality({o \in Sessions :
            req[o].op = "create_event"
            /\ req[o].pc \in {"ensure_can_manage", "insert_event"}}) < MaxEvents
    /\ started' = started + 1
    /\ LET a == [NoArgs EXCEPT !.group_id = group_id,
                               !.start_date = start_date,
                               !.end_date = end_date]
           error == validate_dates(start_date, end_date)
       IN  IF error # "ok"
           THEN /\ last' = [op |-> "create_event", actor |-> actor, a |-> a,
                            res |-> [code |-> IF error = "TypeError"
                                              THEN 500 ELSE 422,
                                     detail |-> error]]
                /\ UNCHANGED <<tables, seq, req>>
           ELSE /\ req' = [req EXCEPT ![r] =
                             Begin(r, "create_event", actor, a,
                                   IF ~falsy(group_id) THEN "ensure_can_manage"
                                   ELSE "insert_event")]
                /\ UNCHANGED <<tables, seq, last>>

\* _ensure_can_manage_group_event:
\* if not membership or not (membership.is_admin or membership.can_create_events)
ensure_can_manage_group_event(r) ==
    /\ req[r].op = "create_event" /\ req[r].pc = "ensure_can_manage"
    /\ LET found == membership_of(Visible(r, "memberships", memberships),
                                  req[r].a.group_id, req[r].actor)
       IN  IF Cardinality(found) > 1
           THEN HTTPException(r, 500, "MultipleResultsFound")
           ELSE IF \/ found = {}
                   \/ \E m \in found : ~(m.is_admin \/ m.can_create_events)
           THEN HTTPException(r, 403,
                    "User cannot create or manage events for this group")
           ELSE Goto(r, "insert_event") /\ UNCHANGED <<tables, seq, started>>

organizer_ids_as_given(organizer_ids, actor) ==
    {organizer_ids[i] : i \in DOMAIN organizer_ids}
\* organizer_ids = set(payload.organizer_ids or []); add(current_user.id)
organizer_id_set(organizer_ids, actor) ==
    {organizer_ids[i] : i \in DOMAIN organizer_ids} \cup {actor}

\* start_date: datetime = Field(nullable=False), a DateTime column without
\* time zone: the store keeps the wall clock time of the value it is given
\* and drops its offset, without converting it.
bind_datetime(value) == datetime(value.wall, None)

\* create_event: session.add(event); flush(), and the set of organizers to
\* add.  organizer_ids is the payload's list, toggles its four flags.  The
\* driver of the store either drops the time zone of an aware datetime (the
\* SQLite store of config.py) or refuses the value (DataError):
\* aware_refused tells which.
insert_event(r, organizer_ids, toggles, aware_refused) ==
    /\ req[r].op = "create_event" /\ req[r].pc = "insert_event"
    /\ IF aware_refused /\ req[r].a.start_date.utcoffset # None
       THEN HTTPException(r, 500, "DataError")
       ELSE /\ seq' = [seq EXCEPT !["events"] = @ + 1]
            /\ req' = [req EXCEPT
                 ![r].pc = "add_organizers",
                 ![r].a.organizer_ids = organizer_ids,
                 ![r].loc.event_id = seq'["events"],
                 ![r].loc.organizer_ids =
                     organizer_id_set(organizer_ids, req[r].actor),
                 ![r].tx.ins = @ \cup
                     {<<"events",
                        [Event(seq'["events"], req[r].actor,
                               req[r].a.group_id, toggles) EXCEPT
                            !.start_date = bind_datetime(req[r].a.start_date),
                            !.end_date = bind_datetime(req[r].a.end_date)]>>}]
            /\ UNCHANGED <<tables, started, last>>

\* create_event: one turn of "for organizer_id in organizer_ids" (a set is
\* iterated in no particular order): the user must exist, the organizer row
\* is registered with session.add() and sent by the flush after the loop.
add_organizers(r, organizer_id) ==
    /\ req[r].op = "create_event" /\ req[r].pc = "add_organizers"
    /\ organizer_id \in req[r].loc.organizer_ids
    /\ IF ~\E u \in Visible(r, "users", users) : u.id = organizer_id
       THEN HTTPException(r, 404, "Organizer not found")
       ELSE /\ req' = [req EXCEPT
                  ![r].loc.organizer_ids = @ \ {organizer_id},
                  ![r].loc.added = @ \cup {organizer_id}]
            /\ UNCHANGED <<tables, seq, started, last>>

\* The ids the next n rows of a table get.
RECURSIVE number(_, _)
number(ids, base) ==
    IF ids = {} THEN {}
    ELSE LET u == CHOOSE x \in ids : \A y \in ids : x <= y
         IN  {<<u, base + 1>>} \cup number(ids \ {u}, base + 1)

\* create_event: the flush after the loop sends the organizer rows; then
\* session.refresh(event) reads the event row back and EventRead.from_orm
\* validates it (EventRead is an EventBase: validate_dates runs on the
\* stored dates, and its error is not caught).
flush_organizers(r) ==
    /\ req[r].op = "create_event" /\ req[r].pc = "add_organizers"
    /\ req[r].loc.organizer_ids = {}
    /\ LET rows == {[id |-> p[2], event_id |-> req[r].loc.event_id,
                     user_id |-> p[1]] :
                        p \in number(req[r].loc.added, seq["organizers"])}
           event == CHOOSE e \in Visible(r, "events", events) :
                        e.id = req[r].loc.event_id
       IN  /\ \A row \in rows :
                 unique_organizer(row, OthersInserted(r, "organizers"))
           /\ IF ~\A row \in rows :
                    unique_organizer(row, Visible(r, "organizers", organizers))
              THEN HTTPException(r, 500, "IntegrityError")
              ELSE IF validate_dates(event.start_date, event.end_date) # "ok"
              THEN HTTPException(r, 500, "ValidationError")
              ELSE /\ seq' = [seq EXCEPT !["organizers"] =
                                 @ + Cardinality(rows)]
                   /\ req' = [req EXCEPT
                        ![r].pc = "commit",
                        ![r].res = [code |-> 201, detail |-> ""],
                        ![r].tx.ins = @ \cup {<<"organizers", row>> : row \in rows}]
                   /\ UNCHANGED <<tables, started, last>>

skips_organizer_guard_for_anyone(op, actor, user_id) ==
    op = "add_event_participant"
\* add_event_participant: "if payload.user_id != current_user.id" guards the
\* call of _ensure_event_organizer.
skips_organizer_guard(op, actor, user_id) ==
    op = "add_event_participant" /\ user_id = actor

\* add_event_organizer, add_event_participant or remove_event_participant is
\* called.  add_event_participant skips the organizer guard when the actor
\* adds themself.
event_link_request(r, op, actor, event_id, user_id) ==
    /\ CanStart(r)
    /\ authenticated(actor)
    /\ started' = started + 1
    /\ req' = [req EXCEPT ![r] =
                 Begin(r, op, actor,
                       [NoArgs EXCEPT !.event_id = event_id, !.user_id = user_id],
                       IF skips_organizer_guard(op, actor, user_id)
                       THEN "check_existing" ELSE "ensure_organizer")]
    /\ UNCHANGED <<tables, seq, last>>

add_event_organizer(r, actor, event_id, user_id) ==
    event_link_request(r, "add_event_organizer", actor, event_id, user_id)
add_event_participant(r, actor, event_id, user_id) ==
    event_link_request(r, "add_event_participant", actor, event_id, user_id)
remove_event_participant(r, actor, event_id, user_id) ==
    event_link_request(r, "remove_event_participant", actor, event_id, user_id)

\* The link table a request works on.
link_table(op) == IF op = "add_event_organizer" THEN "organizers"
                  ELSE "participants"

\* _ensure_event_organizer.
ensure_event_organizer(r) ==
    /\ req[r].op \in {"add_event_organizer", "add_event_participant",
                      "remove_event_participant"}
    /\ req[r].pc = "ensure_organizer"
    /\ LET found == link_of(Visible(r, "organizers", organizers),
                            req[r].a.event_id, req[r].actor)
       IN  IF Cardinality(found) > 1
           THEN HTTPException(r, 500, "MultipleResultsFound")
           ELSE IF found = {}
           THEN HTTPException(r, 403, "Organizer privileges required")
           ELSE /\ Goto(r, IF req[r].op = "remove_event_participant"
                           THEN "load_participant" ELSE "check_existing")
                /\ UNCHANGED <<tables, seq, started>>

\* add_event_organizer / add_event_participant: the row must not exist yet.
check_existing_link(r) ==
    /\ req[r].op \in {"add_event_organizer", "add_event_participant"}
    /\ req[r].pc = "check_existing"
    /\ LET tbl == link_table(req[r].op)
           found == link_of(Visible(r, tbl, links(tbl)),
                            req[r].a.event_id, req[r].a.user_id)
       IN  IF Cardinality(found) > 1
           THEN HTTPException(r, 500, "MultipleResultsFound")
           ELSE IF found # {}
           THEN HTTPException(r, 400,
                    IF tbl = "organizers" THEN "User already organizer"
                    ELSE "User already participant")
           ELSE Goto(r, "check_user") /\ UNCHANGED <<tables, seq, started>>

\* add_event_organizer / add_event_participant: the user must exist.
check_link_user(r) ==
    /\ req[r].op \in {"add_event_organizer", "add_event_participant"}
    /\ req[r].pc = "check_user"
    /\ IF ~\E u \in Visible(r, "users", users) : u.id = req[r].a.user_id
       THEN HTTPException(r, 404, "User not found")
       ELSE Goto(r, "insert_link") /\ UNCHANGED <<tables, seq, started>>

\* add_event_organizer / add_event_participant: session.add(row); flush().
\* The INSERT fails on the UNIQUE constraint; a row that names no event
\* breaks the foreign key, which the store rejects (IntegrityError) or, when
\* it does not enforce foreign keys (SQLite's default, the store of
\* config.py), accepts: enforced tells which
\* (event_id: int = Field(foreign_key="events.id")).
insert_link(r, enforced) ==
    /\ req[r].op \in {"add_event_organizer", "add_event_participant"}
    /\ req[r].pc = "insert_link"
    /\ LET tbl == link_table(req[r].op)
           row == [id |-> seq[tbl] + 1, event_id |-> req[r].a.event_id,
                   user_id |-> req[r].a.user_id]
       IN  /\ unique_link(tbl, row, OthersInserted(r, tbl))
           /\ IF /\ unique_link(tbl, row, Visible(r, tbl, links(tbl)))
                 /\ \/ ~enforced
                    \/ \E e \in Visible(r, "events", events) :
                           e.id = row.event_id
              THEN /\ seq' = [seq EXCEPT ![tbl] = @ + 1]
                   /\ req' = [req EXCEPT
                        ![r].pc = "commit",
                        ![r].res = [code |-> 201, detail |-> ""],
                        ![r].tx.ins = @ \cup {<<tbl, row>>}]
                   /\ UNCHANGED <<tables, started, last>>
              ELSE HTTPException(r, 500, "IntegrityError")

load_participant_and_organizer(r) ==
    /\ req[r].op = "remove_event_participant" /\ req[r].pc = "load_participant"
    /\ LET found == link_of(Visible(r, "participants", participants),
                            req[r].a.event_id, req[r].a.user_id)
           also == link_of(Visible(r, "organizers", organizers),
                           req[r].a.event_id, req[r].a.user_id)
       IN  IF Cardinality(found) > 1
           THEN HTTPException(r, 500, "MultipleResultsFound")
           ELSE IF found = {}
           THEN HTTPException(r, 404, "Participant not found")
           ELSE /\ req' = [req EXCEPT
                      ![r].pc = "commit",
                      ![r].res = [code |-> 204, detail |-> ""],
                      ![r].tx.del = @ \cup
                          {<<"participants", (CHOOSE p \in found : TRUE).id>>}
                          \cup {<<"organizers", o.id>> : o \in also}]
                /\ UNCHANGED <<tables, seq, started, last>>
\* remove_event_participant: the row to delete; session.delete() marks it and
\* the DELETE is sent when the session commits.
load_participant(r) ==
    /\ req[r].op = "remove_event_participant" /\ req[r].pc = "load_participant"
    /\ LET found == link_of(Visible(r, "participants", participants),
                            req[r].a.event_id, req[r].a.user_id)
       IN  IF Cardinality(found) > 1
           THEN HTTPException(r, 500, "MultipleResultsFound")
           ELSE IF found = {}
           THEN HTTPException(r, 404, "Participant not found")
           ELSE /\ req' = [req EXCEPT
                      ![r].pc = "commit",
                      ![r].res = [code |-> 204, detail |-> ""],
                      ![r].tx.del = @ \cup
                          {<<"participants", (CHOOSE p \in found : TRUE).id>>}]
                /\ UNCHANGED <<tables, seq, started, last>>


\* One step of request r of the event endpoints.  The group_id of a
\* create_event payload is none, 0 (an id that names no group) or a group;
\* its organizer_ids list is empty, names another user, names no user, or
\* repeats an id; its dates are naive and run from 1 to 2.
EventStep(r) ==
    \/ \E actor \in UserIds, g \in ({None} \cup 0..MaxGroups) :
           create_event(r, actor, g, datetime(1, None), datetime(2, None))
    \/ \E actor \in UserIds, e \in (1..MaxEvents), u \in UserIds :
           add_event_organizer(r, actor, e, u)
    \/ \E actor \in UserIds, e \in (1..MaxEvents), u \in UserIds :
           add_event_participant(r, actor, e, u)
    \/ \E actor \in UserIds, e \in (1..MaxEvents), u \in UserIds :
           remove_event_participant(r, actor, e, u)
    \/ ensure_can_manage_group_event(r)
    \/ \E l \in {<<>>, <<2>>, <<3>>, <<1, 1>>, <<2, 2>>}, aware_refused \in BOOLEAN :
           insert_event(r, l, Defaults, aware_refused)
    \/ \E u \in UserIds : add_organizers(r, u)
    \/ flush_organizers(r)
    \/ ensure_event_organizer(r)
    \/ check_existing_link(r)
    \/ check_link_user(r)
    \/ \E enforced \in BOOLEAN : insert_link(r, enforced)
    \/ load_participant(r)
    \/ session_commit(r)

\* The store when the event requests arrive: users 1 and 2 are registered
\* (id 3 names no user), user 1 has created group 1 and added user 2 to it,
\* with or without can_create_events.
EventInit ==
    /\ users = {[id |-> 1], [id |-> 2]}
    /\ groups = {[id |-> 1, created_by_id |-> 1]}
    /\ \E can_create_events \in BOOLEAN :
           memberships =
               {[id |-> 1, group_id |-> 1, user_id |-> 1, is_admin |-> TRUE,
                 can_create_events |-> TRUE],
                [id |-> 2, group_id |-> 1, user_id |-> 2, is_admin |-> FALSE,
                 can_create_events |-> can_create_events]}
    /\ events = {} /\ organizers = {} /\ participants = {}
    /\ polls = {} /\ questions = {} /\ options = {} /\ votes = {}
    /\ ticket_types = {} /\ tickets = {}
    /\ shopping_items = {} /\ carpool_offers = {}
    /\ threads = {} /\ messages = {}
    /\ photo_albums = {} /\ photos = {} /\ photo_comments = {}
    /\ seq = [EmptySeq EXCEPT !["users"] = 2, !["groups"] = 1,
                              !["memberships"] = 2]
    /\ req = [r \in Sessions |-> Idle]
    /\ started = 0
    /\ last = NoResponse

SpecEvents == EventInit /\ [][\E r \in Sessions : EventStep(r)]_vars

\* get_event is called.
get_event_detail(r, actor, event_id) ==
    /\ CanStart(r)
    /\ authenticated(actor)
    /\ started' = started + 1
    /\ req' = [req EXCEPT ![r] =
                 Begin(r, "get_event", actor,
                       [NoArgs EXCEPT !.event_id = event_id], "load_event")]
    /\ UNCHANGED <<tables, seq, last>>

\* get_event: _get_event_with_relations loads the event with its organizer
\* and participant rows, which the handler returns.
get_event_with_relations(r) ==
    /\ req[r].op = "get_event" /\ req[r].pc = "load_event"
    /\ IF ~\E e \in Visible(r, "events", events) : e.id = req[r].a.event_id
       THEN HTTPException(r, 404, "Event not found")
       ELSE /\ req' = [req EXCEPT
                  ![r].pc = "commit",
                  ![r].res = [code |-> 200, detail |-> ""],
                  ![r].loc.organizers =
                      {o \in Visible(r, "organizers", organizers) :
                          o.event_id = req[r].a.event_id},
                  ![r].loc.participants =
                      {p \in Visible(r, "participants", participants) :
                          p.event_id = req[r].a.event_id}]
            /\ UNCHANGED <<tables, seq, started, last>>

\* The events are created, joined and read, one request after another.
SpecEventReads == EventInit /\ [][
        \E r \in Sessions :
            /\ Alone(r)
            /\ \/ \E actor \in UserIds, e \in (1..MaxEvents) :
                      get_event_detail(r, actor, e)
               \/ get_event_with_relations(r)
               \/ EventStep(r)
    ]_vars

\* The events are created with any dates of the payload, naive or aware, and
\* joined, one request after another.
SpecEventDates ==
    EventInit /\ [][
        \E r \in Sessions :
            /\ Alone(r)
            /\ \/ \E actor \in UserIds,
                     s, e \in {datetime(w, o) : w \in 1..MaxWall,
                                               o \in {None, 0, 1}} :
                      create_event(r, actor, None, s, e)
               \/ EventStep(r)
    ]_vars


(***************************************************************************)
(* Polls (src/app/routers/polls.py).                                       *)
(***************************************************************************)
\* question_map = {question.id: question for question in poll.questions};
\* question_map.get(vote.question_id)
question_of_poll(poll_id, question_id) ==
    \E q \in questions : q.poll_id = poll_id /\ q.id = question_id

any_option(question_id, option_id) == TRUE
\* next((opt for opt in question.options if opt.id == vote.option_id), None)
option_of_question(question_id, option_id) ==
    \E o \in options : o.id = option_id /\ o.question_id = question_id

no_existing_vote(rows, question_id, voter_id) == {}
\* select(PollVote).where(question_id == vote.question_id,
\*                        voter_id == current_user.id)
existing_vote(rows, question_id, voter_id) ==
    {v \in rows : v.question_id = question_id /\ v.voter_id = voter_id}

unique_vote_dropped(row, rows) == TRUE
\* UniqueConstraint("question_id", "voter_id") on poll_votes.
unique_vote(row, rows) ==
    existing_vote(rows, row.question_id, row.voter_id) = {}

never_closed(poll) == FALSE
\* if not poll.is_active
poll_closed(poll) == ~poll.is_active

\* len(option.votes) of _serialize_poll, for a poll loaded by a new session.
tally(rows, option_id) == Cardinality({v \in rows : v.option_id = option_id})

\* submit_poll_votes is called; the list of votes is drawn entry by entry,
\* where the handler's loop reads it.
submit_poll_votes(r, actor, poll_id) ==
    /\ CanStart(r)
    /\ authenticated(actor)
    /\ started' = started + 1
    /\ req' = [req EXCEPT ![r] =
                 Begin(r, "submit_poll_votes", actor,
                       [NoArgs EXCEPT !.poll_id = poll_id], "get_poll")]
    /\ UNCHANGED <<tables, seq, last>>

\* get_poll is called.
get_poll(r, actor, poll_id) ==
    /\ CanStart(r)
    /\ authenticated(actor)
    /\ started' = started + 1
    /\ req' = [req EXCEPT ![r] =
                 Begin(r, "get_poll", actor,
                       [NoArgs EXCEPT !.poll_id = poll_id], "get_poll")]
    /\ UNCHANGED <<tables, seq, last>>


\* _get_poll_with_questions and, in submit_poll_votes, the is_active check.
\* The load brings the votes of the poll's options into the session: those
\* of the voter are kept in loc.loaded, as the objects the session holds from
\* now on, and loc.option_votes is the content of the option.votes
\* collections (selectinload(Poll.questions)
\* .selectinload(PollQuestion.options).selectinload(PollOption.votes)).
get_poll_with_questions(r) ==
    /\ req[r].op \in {"submit_poll_votes", "get_poll"} /\ req[r].pc = "get_poll"
    /\ LET found == {p \in Visible(r, "polls", polls) :
                        p.id = req[r].a.poll_id}
       IN  IF found = {}
           THEN HTTPException(r, 404, "Poll not found")
           ELSE IF /\ req[r].op = "submit_poll_votes"
                   /\ poll_closed(CHOOSE p \in found : TRUE)
           THEN HTTPException(r, 400, "Poll is closed")
           ELSE /\ req' = [req EXCEPT
                     ![r].pc = "ensure_participant",
                     ![r].loc.event_id = (CHOOSE p \in found : TRUE).event_id,
                     ![r].loc.loaded =
                         {v \in Visible(r, "votes", votes) :
                             /\ v.voter_id = req[r].actor
                             /\ question_of_poll(req[r].a.poll_id,
                                                 v.question_id)},
                     ![r].loc.option_votes =
                         {v \in Visible(r, "votes", votes) :
                             \E o \in options :
                                 /\ o.id = v.option_id
                                 /\ question_of_poll(req[r].a.poll_id,
                                                     o.question_id)}]
                /\ UNCHANGED <<tables, seq, started, last>>

\* _serialize_poll: votes = len(option.votes) for each option of the poll.
\* The collections are those of the session: the second
\* _get_poll_with_questions of submit_poll_votes finds the poll, its
\* questions and its options in the session with their collections loaded,
\* and a load leaves a loaded collection as it is; the PollVote objects of
\* the loop were given their option_id only, which puts them in no
\* collection.
serialize_poll(r) ==
    [o \in {p.id : p \in {x \in options :
                question_of_poll(req[r].a.poll_id, x.question_id)}} |->
        tally(req[r].loc.option_votes, o)]

\* get_poll returns _serialize_poll(poll) once the guard has passed.
after_poll_guard(r) ==
    IF req[r].op = "get_poll"
    THEN req' = [req EXCEPT ![r].pc = "commit",
                            ![r].res = [code |-> 200, detail |-> ""]]
         /\ UNCHANGED last
    ELSE Goto(r, "votes")

\* _ensure_event_participant: a participant row lets the actor through.
ensure_event_participant(r) ==
    /\ req[r].op \in {"submit_poll_votes", "get_poll"} /\ req[r].pc = "ensure_participant"
    /\ LET found == link_of(Visible(r, "participants", participants),
                            req[r].loc.event_id, req[r].actor)
       IN  IF Cardinality(found) > 1
           THEN HTTPException(r, 500, "MultipleResultsFound")
           ELSE /\ IF found # {} THEN after_poll_guard(r)
                   ELSE Goto(r, "ensure_organizer")
                /\ UNCHANGED <<tables, seq, started>>

\* _ensure_event_participant: without a participant row, the actor must be an
\* organizer (_ensure_event_organizer).
ensure_poll_organizer(r) ==
    /\ req[r].op \in {"submit_poll_votes", "get_poll"} /\ req[r].pc = "ensure_organizer"
    /\ LET found == link_of(Visible(r, "organizers", organizers),
                            req[r].loc.event_id, req[r].actor)
       IN  IF Cardinality(found) > 1
           THEN HTTPException(r, 500, "MultipleResultsFound")
           ELSE IF found = {}
           THEN HTTPException(r, 403, "Organizer privileges required")
           ELSE after_poll_guard(r) /\ UNCHANGED <<tables, seq, started>>

\* submit_poll_votes: one turn of "for vote in votes".  The entry is checked
\* against the poll; the SELECT of the existing vote reads the table
\* (autoflush is off: a PollVote registered with session.add() by an earlier
\* turn is not in the table yet); a row found is the session's object when it
\* holds one, and "existing.option_id = vote.option_id" marks it changed when
\* the value differs from the loaded one; otherwise a new PollVote is
\* registered with session.add().
submit_vote(r, vote) ==
    /\ req[r].op = "submit_poll_votes" /\ req[r].pc = "votes"
    /\ Len(req[r].a.votes) < MaxEntries
    /\ LET a == [req[r].a EXCEPT !.votes = Append(@, vote)]
           reject(detail) ==
               /\ req' = [req EXCEPT ![r] = Idle]
               /\ last' = [op |-> req[r].op, actor |-> req[r].actor, a |-> a,
                           res |-> [code |-> 400, detail |-> detail]]
               /\ UNCHANGED <<tables, seq, started>>
           found == existing_vote(Visible(r, "votes", votes),
                                  vote.question_id, req[r].actor)
       IN  IF ~question_of_poll(req[r].a.poll_id, vote.question_id)
           THEN reject("Question not part of this poll")
           ELSE IF ~option_of_question(vote.question_id, vote.option_id)
           THEN reject("Option invalid for question")
           ELSE IF Cardinality(found) > 1
           THEN HTTPException(r, 500, "MultipleResultsFound")
           ELSE IF found = {}
           THEN /\ req' = [req EXCEPT
                     ![r].a = a,
                     ![r].loc.pending = Append(@, vote)]
                /\ UNCHANGED <<tables, seq, started, last>>
           ELSE LET row == CHOOSE v \in found : TRUE
                    loaded == IF \E v \in req[r].loc.loaded : v.id = row.id
                              THEN req[r].loc.loaded
                              ELSE req[r].loc.loaded \cup {row}
                    original == (CHOOSE v \in loaded : v.id = row.id).option_id
                    others == {d \in req[r].loc.dirty : d[1] # row.id}
                IN  /\ req' = [req EXCEPT
                         ![r].a = a,
                         ![r].loc.loaded = loaded,
                         ![r].loc.dirty =
                             IF vote.option_id = original THEN others
                             ELSE others \cup {<<row.id, vote.option_id>>}]
                    /\ UNCHANGED <<tables, seq, started, last>>

\* The rows the flush inserts for the PollVote objects registered by the loop.
RECURSIVE new_votes(_, _, _)
new_votes(pending, voter_id, base) ==
    IF pending = <<>> THEN {}
    ELSE {[id |-> base + 1, question_id |-> Head(pending).question_id,
           option_id |-> Head(pending).option_id, voter_id |-> voter_id]}
         \cup new_votes(Tail(pending), voter_id, base + 1)

\* submit_poll_votes: the loop is over, session.flush() sends the INSERTs and
\* the UPDATEs.  A statement waits for the end of another session that holds
\* the row or the key; an INSERT of a (question_id, voter_id) that the table
\* or this flush already has raises IntegrityError, which nothing catches.
flush_votes(r) ==
    /\ req[r].op = "submit_poll_votes" /\ req[r].pc = "votes"
    /\ LET rows == new_votes(req[r].loc.pending, req[r].actor, seq["votes"])
           n == Len(req[r].loc.pending)
       IN  /\ \A d \in req[r].loc.dirty : ~OthersWrote(r, "votes", d[1])
           /\ \A row \in rows : unique_vote(row, OthersInserted(r, "votes"))
           /\ IF /\ \A row \in rows :
                       unique_vote(row, Visible(r, "votes", votes))
                 /\ \A row \in rows : unique_vote(row, rows \ {row})
              THEN /\ seq' = [seq EXCEPT !["votes"] = @ + n]
                   /\ req' = [req EXCEPT
                        ![r].pc = "commit",
                        ![r].res = [code |-> 200, detail |-> ""],
                        ![r].tx.ins = @ \cup {<<"votes", row>> : row \in rows},
                        ![r].tx.upd = @ \cup
                            {<<"votes", d[1], "option_id", d[2]>> :
                                d \in req[r].loc.dirty}]
                   /\ UNCHANGED <<tables, started, last>>
              ELSE HTTPException(r, 500, "IntegrityError")

\* A poll is deactivated ("polls can be deactivated to block further
\* voting"): is_active is set to false and committed.  No endpoint of
\* src/app/routers does it; the column and the check of it are in the code.
deactivate_poll(poll_id) ==
    /\ started < MaxRequests
    /\ \E p \in polls : p.id = poll_id /\ p.is_active
    /\ \A o \in Sessions : ~\E u \in req[o].tx.upd :
                               u[1] = "polls" /\ u[2] = poll_id
    /\ started' = started + 1
    /\ polls' = {IF p.id = poll_id THEN [p EXCEPT !.is_active = FALSE] ELSE p :
                    p \in polls}
    /\ UNCHANGED <<users, groups, memberships, events, organizers,
                   participants, questions, options, votes, ticket_types,
                   tickets, shopping_items, carpool_offers, threads,
                   messages, photo_albums, photos, photo_comments,
                   seq, req, last>>


\* One step of request r of the poll endpoints.
PollStep(r) ==
    \/ \E actor \in UserIds, p \in {1, 2} : submit_poll_votes(r, actor, p)
    \/ get_poll_with_questions(r)
    \/ ensure_event_participant(r)
    \/ ensure_poll_organizer(r)
    \/ \E vote \in {[question_id |-> 1, option_id |-> 1],
                    [question_id |-> 1, option_id |-> 2],
                    [question_id |-> 2, option_id |-> 3],
                    [question_id |-> 1, option_id |-> 3],
                    [question_id |-> 3, option_id |-> 1]} :
           submit_vote(r, vote)
    \/ flush_votes(r)
    \/ session_commit(r)

\* The store when the votes arrive: users 1, 2 and 3 are registered, user 1
\* has created event 1 (and is its organizer), user 2 has joined it, user 3
\* has not; user 1 has created poll 1 with question 1 (options 1 and 2) and
\* question 2 (options 3 and 4).
PollInit ==
    /\ users = {[id |-> 1], [id |-> 2], [id |-> 3]}
    /\ groups = {} /\ memberships = {}
    /\ events = {Event(1, 1, None, Defaults)}
    /\ organizers = {[id |-> 1, event_id |-> 1, user_id |-> 1]}
    /\ participants = {[id |-> 1, event_id |-> 1, user_id |-> 2]}
    /\ polls = {[id |-> 1, event_id |-> 1, created_by_id |-> 1,
                 is_active |-> TRUE]}
    /\ questions = {[id |-> 1, poll_id |-> 1], [id |-> 2, poll_id |-> 1]}
    /\ options = {[id |-> 1, question_id |-> 1], [id |-> 2, question_id |-> 1],
                  [id |-> 3, question_id |-> 2], [id |-> 4, question_id |-> 2]}
    /\ votes = {}
    /\ ticket_types = {} /\ tickets = {}
    /\ shopping_items = {} /\ carpool_offers = {}
    /\ threads = {} /\ messages = {}
    /\ photo_albums = {} /\ photos = {} /\ photo_comments = {}
    /\ seq = [EmptySeq EXCEPT !["users"] = 3, !["events"] = 1,
                              !["organizers"] = 1, !["participants"] = 1,
                              !["polls"] = 1, !["questions"] = 2,
                              !["options"] = 4]
    /\ req = [r \in Sessions |-> Idle]
    /\ started = 0
    /\ last = NoResponse

SpecPolls ==
    PollInit /\ [][
        \/ \E p \in {1, 2} : deactivate_poll(p)
        \/ \E r \in Sessions : PollStep(r)
    ]_vars

\* The poll requests run one after another.
SpecPollsSeq ==
    PollInit /\ [][
        \/ /\ \A o \in Sessions : ~InFlight(o)
           /\ \E p \in {1, 2} : deactivate_poll(p)
        \/ \E r \in Sessions : Alone(r) /\ PollStep(r)
    ]_vars

\* The polls are read while votes are submitted.
SpecPollReads == PollInit /\ [][
        \E r \in Sessions :
            /\ Alone(r)
            /\ \/ \E actor \in UserIds, p \in {1, 2} : get_poll(r, actor, p)
               \/ PollStep(r)
    ]_vars

(***************************************************************************)
(* Optional features of an event: shopping list, carpooling                *)
(* (src/app/routers/addons.py) and the creation of a poll                  *)
(* (src/app/routers/polls.py).                                             *)
(***************************************************************************)
AllOff == [carpool_enabled |-> FALSE, shopping_list_enabled |-> FALSE,
           billetterie_enabled |-> FALSE, polls_enabled |-> FALSE]

\* add_shopping_item or create_carpool_offer is called; name is the item's
\* name ("" for a carpool offer).
addon_request(r, op, actor, event_id, name) ==
    /\ CanStart(r)
    /\ authenticated(actor)
    /\ started' = started + 1
    /\ req' = [req EXCEPT ![r] =
                 Begin(r, op, actor,
                       [NoArgs EXCEPT !.event_id = event_id, !.name = name],
                       "get_event")]
    /\ UNCHANGED <<tables, seq, last>>

add_shopping_item(r, actor, event_id, name) ==
    addon_request(r, "add_shopping_item", actor, event_id, name)
create_carpool_offer(r, actor, event_id) ==
    addon_request(r, "create_carpool_offer", actor, event_id, "")
list_shopping_items(r, actor, event_id) ==
    addon_request(r, "list_shopping_items", actor, event_id, "")
list_carpool_offers(r, actor, event_id) ==
    addon_request(r, "list_carpool_offers", actor, event_id, "")


feature_of_other_family(op, event) ==
    IF op \in {"add_shopping_item", "list_shopping_items"} THEN event.carpool_enabled
    ELSE event.shopping_list_enabled
\* if not event.shopping_list_enabled / if not event.carpool_enabled
feature_enabled(op, event) ==
    IF op \in {"add_shopping_item", "list_shopping_items"} THEN event.shopping_list_enabled
    ELSE event.carpool_enabled

\* _get_event of addons.py, then the feature flag of the event.
get_addon_event(r) ==
    /\ req[r].op \in {"add_shopping_item", "list_shopping_items",
                      "create_carpool_offer", "list_carpool_offers"}
    /\ req[r].pc = "get_event"
    /\ LET found == {e \in Visible(r, "events", events) :
                        e.id = req[r].a.event_id}
       IN  IF found = {}
           THEN HTTPException(r, 404, "Event not found")
           ELSE IF ~feature_enabled(req[r].op, CHOOSE e \in found : TRUE)
           THEN HTTPException(r, 400,
                    IF req[r].op \in {"add_shopping_item", "list_shopping_items"}
                    THEN "Shopping list is not enabled for this event"
                    ELSE "Carpooling is not enabled for this event")
           ELSE Goto(r, "ensure_member") /\ UNCHANGED <<tables, seq, started>>

\* _ensure_event_member: a participant row, or else an organizer row.  The
\* two list handlers only read after the guard and answer 200.
ensure_event_member(r) ==
    /\ req[r].op \in {"add_shopping_item", "list_shopping_items",
                      "create_carpool_offer", "list_carpool_offers"}
    /\ req[r].pc = "ensure_member"
    /\ LET participant == link_of(Visible(r, "participants", participants),
                                  req[r].a.event_id, req[r].actor)
           organizer == link_of(Visible(r, "organizers", organizers),
                                req[r].a.event_id, req[r].actor)
       IN  IF Cardinality(participant) > 1
              \/ (participant = {} /\ Cardinality(organizer) > 1)
           THEN HTTPException(r, 500, "MultipleResultsFound")
           ELSE IF participant = {} /\ organizer = {}
           THEN HTTPException(r, 403, "Event membership required")
           ELSE IF req[r].op \in {"list_shopping_items", "list_carpool_offers"}
           THEN /\ req' = [req EXCEPT ![r].pc = "commit",
                                      ![r].res = [code |-> 200, detail |-> ""]]
                /\ UNCHANGED <<tables, seq, started, last>>
           ELSE /\ Goto(r, IF req[r].op = "add_shopping_item"
                           THEN "check_existing" ELSE "insert")
                /\ UNCHANGED <<tables, seq, started>>

item_of(rows, event_id, name) ==
    {i \in rows : i.event_id = event_id /\ i.name = name}

\* add_shopping_item: "Ensure uniqueness of items per event".
check_existing_item(r) ==
    /\ req[r].op = "add_shopping_item" /\ req[r].pc = "check_existing"
    /\ LET found == item_of(Visible(r, "shopping_items", shopping_items),
                            req[r].a.event_id, req[r].a.name)
       IN  IF Cardinality(found) > 1
           THEN HTTPException(r, 500, "MultipleResultsFound")
           ELSE IF found # {}
           THEN HTTPException(r, 400, "Item already registered for this event")
           ELSE Goto(r, "insert") /\ UNCHANGED <<tables, seq, started>>

unique_name(row, rows) == \A i \in rows : i.name # row.name
\* UniqueConstraint("event_id", "name") of ShoppingListItem.
unique_item(row, rows) == item_of(rows, row.event_id, row.name) = {}

\* add_shopping_item: session.add(item); flush().  The INSERT waits while
\* another session holds the same key unflushed and fails on the UNIQUE
\* constraint.
insert_shopping_item(r) ==
    /\ req[r].op = "add_shopping_item" /\ req[r].pc = "insert"
    /\ LET row == [id |-> seq["shopping_items"] + 1,
                   event_id |-> req[r].a.event_id,
                   owner_id |-> req[r].actor, name |-> req[r].a.name]
       IN  /\ unique_item(row, OthersInserted(r, "shopping_items"))
           /\ IF unique_item(row, Visible(r, "shopping_items", shopping_items))
              THEN /\ seq' = [seq EXCEPT !["shopping_items"] = @ + 1]
                   /\ req' = [req EXCEPT
                        ![r].pc = "commit",
                        ![r].res = [code |-> 201, detail |-> ""],
                        ![r].tx.ins = @ \cup {<<"shopping_items", row>>}]
                   /\ UNCHANGED <<tables, started, last>>
              ELSE HTTPException(r, 500, "IntegrityError")

\* create_carpool_offer: session.add(offer); flush().
insert_carpool_offer(r) ==
    /\ req[r].op = "create_carpool_offer" /\ req[r].pc = "insert"
    /\ seq' = [seq EXCEPT !["carpool_offers"] = @ + 1]
    /\ req' = [req EXCEPT
         ![r].pc = "commit",
         ![r].res = [code |-> 201, detail |-> ""],
         ![r].tx.ins = @ \cup
             {<<"carpool_offers",
                [id |-> seq'["carpool_offers"], event_id |-> req[r].a.event_id,
                 driver_id |-> req[r].actor]>>}]
    /\ UNCHANGED <<tables, started, last>>

\* create_poll is called.  The payload's questions are drawn where the
\* handler reads them.
create_poll(r, actor, event_id) ==
    /\ CanStart(r)
    /\ authenticated(actor)
    /\ seq["polls"] + Cardinality({o \in Sessions :
            req[o].op = "create_poll"
            /\ req[o].pc \in {"ensure_organizer", "insert_poll"}}) < MaxPolls
    /\ started' = started + 1
    /\ req' = [req EXCEPT ![r] =
                 Begin(r, "create_poll", actor,
                       [NoArgs EXCEPT !.event_id = event_id],
                       "ensure_organizer")]
    /\ UNCHANGED <<tables, seq, last>>

\* create_poll: _ensure_event_organizer of polls.py.  Neither the event nor
\* its polls_enabled flag is read.
ensure_poll_creator(r) ==
    /\ req[r].op = "create_poll" /\ req[r].pc = "ensure_organizer"
    /\ LET found == link_of(Visible(r, "organizers", organizers),
                            req[r].a.event_id, req[r].actor)
       IN  IF Cardinality(found) > 1
           THEN HTTPException(r, 500, "MultipleResultsFound")
           ELSE IF found = {}
           THEN HTTPException(r, 403, "Organizer privileges required")
           ELSE Goto(r, "insert_poll") /\ UNCHANGED <<tables, seq, started>>

\* create_poll: the payload has n questions; without questions the request
\* is refused, otherwise session.add(poll); flush().
insert_poll(r, n) ==
    /\ req[r].op = "create_poll" /\ req[r].pc = "insert_poll"
    /\ IF n = 0
       THEN HTTPException(r, 400, "Poll must contain questions")
       ELSE /\ seq' = [seq EXCEPT !["polls"] = @ + 1]
            /\ req' = [req EXCEPT
                 ![r].pc = "questions",
                 ![r].loc.poll_id = seq'["polls"],
                 ![r].loc.todo = n,
                 ![r].tx.ins = @ \cup
                     {<<"polls", [id |-> seq'["polls"],
                                  event_id |-> req[r].a.event_id,
                                  created_by_id |-> req[r].actor,
                                  is_active |-> TRUE]>>}]
            /\ UNCHANGED <<tables, started, last>>

\* if not question_payload.options or len(question_payload.options) < 2
too_few_options_below_one(n) == n < 1
too_few_options(n) == n < 2

\* The option rows a question gets: n rows numbered from base + 1.
option_rows(question_id, n, base) ==
    {[id |-> base + i, question_id |-> question_id] : i \in 1..n}

\* create_poll: one turn of "for question_payload in payload.questions" for
\* a question with n options.  The flush of the question also sends the
\* options registered by the turn before; the options of this question are
\* registered with session.add() and are sent by the next flush.
add_question(r, n) ==
    /\ req[r].op = "create_poll" /\ req[r].pc = "questions"
    /\ req[r].loc.todo > 0
    /\ LET a == [req[r].a EXCEPT !.questions = Append(@, n)]
       IN  IF too_few_options(n)
           THEN /\ req' = [req EXCEPT ![r] = Idle]
                /\ last' = [op |-> req[r].op, actor |-> req[r].actor, a |-> a,
                            res |-> [code |-> 400, detail |->
                               "Each question needs at least two options"]]
                /\ UNCHANGED <<tables, seq, started>>
           ELSE /\ seq' = [seq EXCEPT !["questions"] = @ + 1,
                                      !["options"] = @ + n]
                /\ req' = [req EXCEPT
                     ![r].a = a,
                     ![r].loc.todo = @ - 1,
                     ![r].loc.unsent =
                         option_rows(seq'["questions"], n, seq["options"]),
                     ![r].tx.ins = @ \cup
                         {<<"questions", [id |-> seq'["questions"],
                                          poll_id |-> req[r].loc.poll_id]>>}
                         \cup {<<"options", o>> : o \in req[r].loc.unsent}]
                /\ UNCHANGED <<tables, started, last>>

\* create_poll: the flush after the loop sends the options of the last
\* question; the handler returns the poll.
flush_poll(r) ==
    /\ req[r].op = "create_poll" /\ req[r].pc = "questions"
    /\ req[r].loc.todo = 0
    /\ req' = [req EXCEPT
         ![r].pc = "commit",
         ![r].res = [code |-> 201, detail |-> ""],
         ![r].loc.unsent = {},
         ![r].tx.ins = @ \cup {<<"options", o>> : o \in req[r].loc.unsent}]
    /\ UNCHANGED <<tables, seq, started, last>>


\* The store when the feature requests arrive: users 1, 2 and 3 are
\* registered; user 1 has created event 1 with the four features enabled and
\* event 2 with the four features disabled, and is the organizer of both;
\* user 2 has joined both; user 3 has joined neither.
AddonInit ==
    /\ users = {[id |-> 1], [id |-> 2], [id |-> 3]}
    /\ groups = {} /\ memberships = {}
    /\ events = {Event(1, 1, None, AllOn), Event(2, 1, None, AllOff)}
    /\ organizers = {[id |-> 1, event_id |-> 1, user_id |-> 1],
                     [id |-> 2, event_id |-> 2, user_id |-> 1]}
    /\ participants = {[id |-> 1, event_id |-> 1, user_id |-> 2],
                       [id |-> 2, event_id |-> 2, user_id |-> 2]}
    /\ polls = {} /\ questions = {} /\ options = {} /\ votes = {}
    /\ ticket_types = {} /\ tickets = {}
    /\ shopping_items = {} /\ carpool_offers = {}
    /\ threads = {} /\ messages = {}
    /\ photo_albums = {} /\ photos = {} /\ photo_comments = {}
    /\ seq = [EmptySeq EXCEPT !["users"] = 3, !["events"] = 2,
                              !["organizers"] = 2, !["participants"] = 2]
    /\ req = [r \in Sessions |-> Idle]
    /\ started = 0
    /\ last = NoResponse

\* The feature requests, interleaved at their store calls.
SpecAddons == AddonInit /\ [][
        \/ \E actor \in UserIds, e \in {1, 2} :
               create_ticket_type(actor, e, 1)
        \/ \E r \in Sessions :
               \/ \E actor \in UserIds, e \in {1, 2}, n \in {"wine"} :
                      add_shopping_item(r, actor, e, n)
               \/ \E actor \in UserIds, e \in {1, 2} :
                      create_carpool_offer(r, actor, e)
               \/ \E actor \in UserIds, e \in {1, 2} : create_poll(r, actor, e)
               \/ get_addon_event(r)
               \/ ensure_event_member(r)
               \/ check_existing_item(r)
               \/ insert_shopping_item(r)
               \/ insert_carpool_offer(r)
               \/ ensure_poll_creator(r)
               \/ \E n \in 0..MaxQuestions : insert_poll(r, n)
               \/ \E n \in 0..MaxOptions : add_question(r, n)
               \/ flush_poll(r)
               \/ session_commit(r)
    ]_vars

\* The store when the requests arrive: users 1, 2 and 3 are registered;
\* user 1 has created event 1 with every feature and event 2 with every
\* feature but carpooling, and is their organizer; user 2 has joined event 1
\* and user 3 neither.
ShoppingInit ==
    /\ users = {[id |-> 1], [id |-> 2], [id |-> 3]}
    /\ groups = {} /\ memberships = {}
    /\ events = {Event(1, 1, None, AllOn),
                 Event(2, 1, None, [AllOn EXCEPT !.carpool_enabled = FALSE])}
    /\ organizers = {[id |-> 1, event_id |-> 1, user_id |-> 1],
                     [id |-> 2, event_id |-> 2, user_id |-> 1]}
    /\ participants = {[id |-> 1, event_id |-> 1, user_id |-> 2]}
    /\ polls = {} /\ questions = {} /\ options = {} /\ votes = {}
    /\ ticket_types = {} /\ tickets = {}
    /\ shopping_items = {} /\ carpool_offers = {}
    /\ threads = {} /\ messages = {}
    /\ photo_albums = {} /\ photos = {} /\ photo_comments = {}
    /\ seq = [EmptySeq EXCEPT !["users"] = 3, !["events"] = 2,
                              !["organizers"] = 2, !["participants"] = 1]
    /\ req = [r \in Sessions |-> Idle]
    /\ started = 0
    /\ last = NoResponse

\* The four requests on shopping items and carpool offers.
SpecShopping == ShoppingInit /\ [][
        \E r \in Sessions :
            \/ \E actor \in UserIds, e \in {1, 2}, n \in {"wine"} :
                   add_shopping_item(r, actor, e, n)
            \/ \E actor \in UserIds, e \in {1, 2} :
                   list_shopping_items(r, actor, e)
            \/ \E actor \in UserIds, e \in {1, 2} :
                   create_carpool_offer(r, actor, e)
            \/ \E actor \in UserIds, e \in {1, 2} :
                   list_carpool_offers(r, actor, e)
            \/ get_addon_event(r)
            \/ ensure_event_member(r)
            \/ check_existing_item(r)
            \/ insert_shopping_item(r)
            \/ insert_carpool_offer(r)
            \/ session_commit(r)
    ]_vars

\* The store when the requests arrive: users 1, 2 and 3 are registered;
\* user 1 has created event 1 with every feature and event 2 with carpooling
\* only, and is their organizer; user 2 has joined both.
FeatureInit ==
    /\ users = {[id |-> 1], [id |-> 2], [id |-> 3]}
    /\ groups = {} /\ memberships = {}
    /\ events = {Event(1, 1, None, AllOn),
                 Event(2, 1, None, [AllOff EXCEPT !.carpool_enabled = TRUE])}
    /\ organizers = {[id |-> 1, event_id |-> 1, user_id |-> 1],
                     [id |-> 2, event_id |-> 2, user_id |-> 1]}
    /\ participants = {[id |-> 1, event_id |-> 1, user_id |-> 2],
                       [id |-> 2, event_id |-> 2, user_id |-> 2]}
    /\ polls = {} /\ questions = {} /\ options = {} /\ votes = {}
    /\ ticket_types = {} /\ tickets = {}
    /\ shopping_items = {} /\ carpool_offers = {}
    /\ threads = {} /\ messages = {}
    /\ photo_albums = {} /\ photos = {} /\ photo_comments = {}
    /\ seq = [EmptySeq EXCEPT !["users"] = 3, !["events"] = 2,
                              !["organizers"] = 2, !["participants"] = 2]
    /\ req = [r \in Sessions |-> Idle]
    /\ started = 0
    /\ last = NoResponse

\* The sub-resources of an event other than polls: ticket types and their
\* sale, shopping items and carpool offers.
SpecFeatures == FeatureInit /\ [][
        \/ \E actor \in UserIds, e \in {1, 2} :
               create_ticket_type(actor, e, 1)
        \/ \E r \in Sessions :
               \/ \E actor \in UserIds, e \in {1, 2}, n \in {"wine"} :
                      add_shopping_item(r, actor, e, n)
               \/ \E actor \in UserIds, e \in {1, 2} :
                      create_carpool_offer(r, actor, e)
               \/ get_addon_event(r)
               \/ ensure_event_member(r)
               \/ check_existing_item(r)
               \/ insert_shopping_item(r)
               \/ insert_carpool_offer(r)
               \/ TicketStep(r)
    ]_vars

(***************************************************************************)
(* Discussion threads and messages (src/app/routers/discussions.py).       *)
(***************************************************************************)
\* DiscussionThreadCreate.validate_context: the error it raises, if any.
validate_context(context, group_id, event_id) ==
    IF context = "group" /\ falsy(group_id)
    THEN "group_id is required when context = group"
    ELSE IF context = "event" /\ falsy(event_id)
    THEN "event_id is required when context = event"
    ELSE "ok"

\* create_thread is called.  A payload that validate_context refuses is
\* answered 422 before the handler runs.
create_thread(r, actor, context, group_id, event_id) ==
    /\ CanStart(r)
    /\ authenticated(actor)
    /\ seq["threads"] + Cardinality({o \in Sessions :
            req[o].op = "create_thread"
            /\ req[o].pc \in {"ensure_access", "insert_thread"}}) < MaxThreads
    /\ started' = started + 1
    /\ LET a == [NoArgs EXCEPT !.context = context, !.group_id = group_id,
                               !.event_id = event_id]
           error == validate_context(context, group_id, event_id)
       IN  IF error # "ok"
           THEN /\ last' = [op |-> "create_thread", actor |-> actor, a |-> a,
                            res |-> [code |-> 422, detail |-> error]]
                /\ UNCHANGED <<tables, seq, req>>
           ELSE /\ req' = [req EXCEPT ![r] =
                             Begin(r, "create_thread", actor, a, "ensure_access")]
                /\ UNCHANGED <<tables, seq, last>>

\* get_thread, create_message or list_messages is called; the parent_id of a
\* create_message payload is drawn where the handler reads it (check_parent).
thread_request(r, op, actor, thread_id) ==
    /\ CanStart(r)
    /\ authenticated(actor)
    /\ op = "create_message" =>
           seq["messages"] + Cardinality({o \in Sessions :
               req[o].op = "create_message" /\ InFlight(o)
               /\ req[o].pc # "commit"}) < MaxMessages
    /\ started' = started + 1
    /\ req' = [req EXCEPT ![r] =
                 Begin(r, op, actor, [NoArgs EXCEPT !.thread_id = thread_id],
                       "load_thread")]
    /\ UNCHANGED <<tables, seq, last>>

get_thread(r, actor, thread_id) ==
    thread_request(r, "get_thread", actor, thread_id)
create_message(r, actor, thread_id) ==
    thread_request(r, "create_message", actor, thread_id)
list_messages(r, actor, thread_id) ==
    thread_request(r, "list_messages", actor, thread_id)

\* _get_thread_with_messages; the context and the ids of the stored thread
\* are what the guards use from now on.
get_thread_with_messages(r) ==
    /\ req[r].op \in {"get_thread", "create_message", "list_messages"}
    /\ req[r].pc = "load_thread"
    /\ LET found == {t \in Visible(r, "threads", threads) :
                        t.id = req[r].a.thread_id}
       IN  IF found = {}
           THEN HTTPException(r, 404, "Thread not found")
           ELSE /\ req' = [req EXCEPT
                     ![r].pc = "ensure_access",
                     ![r].loc.thread = CHOOSE t \in found : TRUE]
                /\ UNCHANGED <<tables, seq, started, last>>

\* The guard a handler applies: create_thread goes by the payload's context,
\* the other handlers by the stored thread ("if thread.context ==
\* ThreadContext.group and thread.group_id: ... elif ...").
guard_always_group(op, context, group_id, event_id) == "group"
guard_of(op, context, group_id, event_id) ==
    IF op = "create_thread"
    THEN context
    ELSE IF context = "group" /\ ~falsy(group_id) THEN "group"
         ELSE IF context = "event" /\ ~falsy(event_id) THEN "event"
         ELSE "none"

\* The step after the guard; get_thread and list_messages return the
\* messages loaded with the thread.
after_guard(op) ==
    CASE op = "create_thread" -> "insert_thread"
      [] op = "create_message" -> "check_parent"
      [] OTHER -> "commit"

\* _ensure_group_member / _ensure_event_participant of discussions.py,
\* whichever the context asks for.
ensure_thread_access(r) ==
    /\ req[r].op \in {"create_thread", "get_thread", "create_message",
                      "list_messages"}
    /\ req[r].pc = "ensure_access"
    /\ LET t == IF req[r].op = "create_thread" THEN req[r].a
                ELSE req[r].loc.thread
           guard == guard_of(req[r].op, t.context, t.group_id, t.event_id)
           member == membership_of(Visible(r, "memberships", memberships),
                                   t.group_id, req[r].actor)
           participant == link_of(Visible(r, "participants", participants),
                                  t.event_id, req[r].actor)
           organizer == link_of(Visible(r, "organizers", organizers),
                                t.event_id, req[r].actor)
       IN  IF \/ guard = "group" /\ Cardinality(member) > 1
              \/ guard = "event" /\ Cardinality(participant) > 1
              \/ guard = "event" /\ participant = {}
                                 /\ Cardinality(organizer) > 1
           THEN HTTPException(r, 500, "MultipleResultsFound")
           ELSE IF guard = "group" /\ member = {}
           THEN HTTPException(r, 403, "Access to group discussion denied")
           ELSE IF guard = "event" /\ participant = {} /\ organizer = {}
           THEN HTTPException(r, 403, "Access to event discussion denied")
           ELSE /\ req' = [req EXCEPT
                     ![r].pc = after_guard(req[r].op),
                     ![r].res = IF after_guard(req[r].op) = "commit"
                                THEN [code |-> 200, detail |-> ""] ELSE NoRes]
                /\ UNCHANGED <<tables, seq, started, last>>

\* create_thread: session.add(thread); flush().  Both ids of the payload are
\* stored as given.
insert_thread(r) ==
    /\ req[r].op = "create_thread" /\ req[r].pc = "insert_thread"
    /\ seq' = [seq EXCEPT !["threads"] = @ + 1]
    /\ req' = [req EXCEPT
         ![r].pc = "commit",
         ![r].res = [code |-> 201, detail |-> ""],
         ![r].tx.ins = @ \cup
             {<<"threads", [id |-> seq'["threads"],
                            context |-> req[r].a.context,
                            group_id |-> req[r].a.group_id,
                            event_id |-> req[r].a.event_id,
                            created_by_id |-> req[r].actor]>>}]
    /\ UNCHANGED <<tables, started, last>>

\* create_message: "if payload.parent_id:" and the SELECT of the parent,
\* select(Message).where(Message.id == payload.parent_id,
\*                       Message.thread_id == thread_id).
check_parent(r, parent_id) ==
    /\ req[r].op = "create_message" /\ req[r].pc = "check_parent"
    /\ LET a == [req[r].a EXCEPT !.parent_id = parent_id]
       IN  IF /\ ~falsy(parent_id)
              /\ {m \in Visible(r, "messages", messages) :
                     m.id = parent_id /\ m.thread_id = req[r].a.thread_id} = {}
           THEN /\ req' = [req EXCEPT ![r] = Idle]
                /\ last' = [op |-> req[r].op, actor |-> req[r].actor, a |-> a,
                            res |-> [code |-> 400, detail |->
                                "Parent message not found in this thread"]]
                /\ UNCHANGED <<tables, seq, started>>
           ELSE /\ req' = [req EXCEPT ![r].pc = "insert_message", ![r].a = a]
                /\ UNCHANGED <<tables, seq, started, last>>

\* create_message: session.add(message); flush().  A parent_id that names no
\* message breaks the foreign key, which the store rejects (IntegrityError)
\* or, when it does not enforce foreign keys, accepts: enforced tells which
\* (parent_id: Optional[int] = Field(foreign_key="messages.id")).
insert_message(r, enforced) ==
    /\ req[r].op = "create_message" /\ req[r].pc = "insert_message"
    /\ IF \/ ~enforced
          \/ req[r].a.parent_id = None
          \/ \E m \in Visible(r, "messages", messages) :
                 m.id = req[r].a.parent_id
       THEN /\ seq' = [seq EXCEPT !["messages"] = @ + 1]
            /\ req' = [req EXCEPT
                 ![r].pc = "commit",
                 ![r].res = [code |-> 201, detail |-> ""],
                 ![r].tx.ins = @ \cup
                     {<<"messages", [id |-> seq'["messages"],
                                     thread_id |-> req[r].a.thread_id,
                                     author_id |-> req[r].actor,
                                     parent_id |-> req[r].a.parent_id]>>}]
            /\ UNCHANGED <<tables, started, last>>
       ELSE HTTPException(r, 500, "IntegrityError")


\* One step of request r of the discussion endpoints.
ThreadStep(r) ==
    \/ \E actor \in UserIds, c \in {"group", "event"}, g \in {None, 1},
          e \in {None, 1} : create_thread(r, actor, c, g, e)
    \/ \E actor \in UserIds, t \in (1..MaxThreads) : get_thread(r, actor, t)
    \/ \E actor \in UserIds, t \in (1..MaxThreads) : create_message(r, actor, t)
    \/ \E actor \in UserIds, t \in (1..MaxThreads) : list_messages(r, actor, t)
    \/ get_thread_with_messages(r)
    \/ ensure_thread_access(r)
    \/ insert_thread(r)
    \/ \E p \in ({None, 0} \cup 1..MaxMessages) : check_parent(r, p)
    \/ \E enforced \in BOOLEAN : insert_message(r, enforced)
    \/ session_commit(r)

\* The store when the discussion requests arrive: user 1 has created group 1
\* (and is its member), user 3 has created event 1 (and is its organizer),
\* user 2 has joined event 1; user 1 has created thread 1 of group 1 and
\* posted message 1 in it, user 3 has created thread 2 of event 1.
ThreadInit ==
    /\ users = {[id |-> 1], [id |-> 2], [id |-> 3]}
    /\ groups = {[id |-> 1, created_by_id |-> 1]}
    /\ memberships = {[id |-> 1, group_id |-> 1, user_id |-> 1,
                       is_admin |-> TRUE, can_create_events |-> TRUE]}
    /\ events = {Event(1, 3, None, Defaults)}
    /\ organizers = {[id |-> 1, event_id |-> 1, user_id |-> 3]}
    /\ participants = {[id |-> 1, event_id |-> 1, user_id |-> 2]}
    /\ polls = {} /\ questions = {} /\ options = {} /\ votes = {}
    /\ ticket_types = {} /\ tickets = {}
    /\ shopping_items = {} /\ carpool_offers = {}
    /\ threads = {[id |-> 1, context |-> "group", group_id |-> 1,
                   event_id |-> None, created_by_id |-> 1],
                  [id |-> 2, context |-> "event", group_id |-> None,
                   event_id |-> 1, created_by_id |-> 3]}
    /\ messages = {[id |-> 1, thread_id |-> 1, author_id |-> 1,
                    parent_id |-> None]}
    /\ photo_albums = {} /\ photos = {} /\ photo_comments = {}
    /\ seq = [EmptySeq EXCEPT !["users"] = 3, !["groups"] = 1,
                              !["memberships"] = 1, !["events"] = 1,
                              !["organizers"] = 1, !["participants"] = 1,
                              !["threads"] = 2, !["messages"] = 1]
    /\ req = [r \in Sessions |-> Idle]
    /\ started = 0
    /\ last = NoResponse

SpecThreads == ThreadInit /\ [][\E r \in Sessions : ThreadStep(r)]_vars

(***************************************************************************)
(* The group, event and discussion endpoints together.                     *)
(***************************************************************************)

\* One request after another, MaxGuardRequests of them, from the store of
\* the group requests, of the event requests or of the discussion requests.
SpecGuards == (GroupInit \/ EventInit \/ ThreadInit) /\ [][
        \E r \in Sessions :
            /\ Alone(r)
            /\ \/ GroupStep(r)
               \/ EventStep(r)
               \/ ThreadStep(r)
            /\ started' <= MaxGuardRequests
    ]_vars

(***************************************************************************)
(* Authentication (src/app/dependencies.py, src/app/routers/auth.py,       *)
(* src/app/core/security.py).                                              *)
(***************************************************************************)
\* pwd_context.hash: the digest of a password (never the password itself).
get_password_hash(password) == <<"bcrypt", password>>
\* pwd_context.verify
verify_password(plain_password, hashed_password) ==
    hashed_password = get_password_hash(plain_password)

\* create_access_token: the subject signed with settings.secret_key.
create_access_token(subject) ==
    [sub |-> subject, signature |-> "secret_key", expired |-> FALSE]

\* decode_access_token: jwt.decode checks the signature and the expiry;
\* anything else raises ValueError("Invalid token").
decode_access_token(token) ==
    IF token.signature = "secret_key" /\ ~token.expired
    THEN [ok |-> TRUE, sub |-> token.sub]
    ELSE [ok |-> FALSE, sub |-> ""]

\* str(user.id) and int(payload["sub"]); int() of a text that is no number
\* raises ValueError (None here), and so does a payload without "sub" ("").
str(id) == CASE id = 1 -> "1" [] id = 2 -> "2" [] id = 3 -> "3" [] OTHER -> "0"
int(text) == CASE text = "1" -> 1 [] text = "2" -> 2 [] text = "3" -> 3
               [] text = "0" -> 0 [] OTHER -> None

\* GET /users/me is called with a bearer token.
read_current_user(r, token) ==
    /\ CanStart(r)
    /\ started' = started + 1
    /\ req' = [req EXCEPT ![r] =
                 Begin(r, "read_current_user", 0,
                       [NoArgs EXCEPT !.token = token], "get_current_user")]
    /\ UNCHANGED <<tables, seq, last>>

\* get_current_user, then get_current_active_user; read_current_user
\* returns the user they yield.
get_current_user(r) ==
    /\ req[r].op = "read_current_user" /\ req[r].pc = "get_current_user"
    /\ LET payload == decode_access_token(req[r].a.token)
           user_id == int(payload.sub)
           found == {u \in Visible(r, "users", users) : u.id = user_id}
       IN  IF ~payload.ok \/ user_id = None
           THEN HTTPException(r, 401, "Could not validate credentials")
           ELSE IF found = {}
           THEN HTTPException(r, 401, "User not found")
           ELSE IF \E u \in found : ~u.is_active
           THEN HTTPException(r, 403, "Inactive user")
           ELSE /\ req' = [req EXCEPT
                     ![r].pc = "commit", ![r].actor = user_id,
                     ![r].res = [code |-> 200, detail |-> ""]]
                /\ UNCHANGED <<tables, seq, started, last>>

\* POST /auth/token is called with the form's username and password.
login_for_access_token(r, username, password) ==
    /\ CanStart(r)
    /\ started' = started + 1
    /\ req' = [req EXCEPT ![r] =
                 Begin(r, "login_for_access_token", 0,
                       [NoArgs EXCEPT !.username = username,
                                      !.password = password], "login")]
    /\ UNCHANGED <<tables, seq, last>>

\* login_for_access_token: the user of that email and the password check;
\* the token of the response is create_access_token(str(user.id)).
check_credentials(r) ==
    /\ req[r].op = "login_for_access_token" /\ req[r].pc = "login"
    /\ LET found == {u \in Visible(r, "users", users) :
                        u.email = req[r].a.username}
       IN  IF Cardinality(found) > 1
           THEN HTTPException(r, 500, "MultipleResultsFound")
           ELSE IF \/ found = {}
                   \/ \E u \in found :
                          ~verify_password(req[r].a.password, u.hashed_password)
           THEN HTTPException(r, 400, "Incorrect email or password")
           ELSE /\ req' = [req EXCEPT
                     ![r].pc = "commit",
                     ![r].actor = (CHOOSE u \in found : TRUE).id,
                     ![r].a.token =
                         create_access_token(str((CHOOSE u \in found : TRUE).id)),
                     ![r].res = [code |-> 200, detail |-> ""]]
                /\ UNCHANGED <<tables, seq, started, last>>

\* The tokens a request can carry: the tokens of users 1 and 2, a token of
\* the server whose subject is no user (3), is no number ("x") or is
\* missing (""), an expired token and a token signed with another key.
Tokens ==
    {create_access_token(s) : s \in {"1", "2", "3", "x", ""}}
    \cup {[sub |-> "1", signature |-> "secret_key", expired |-> TRUE],
          [sub |-> "1", signature |-> "other_key", expired |-> FALSE]}


\* The store when the requests arrive: users 1 (a@x.org, password pw1) and
\* 2 (b@x.org, password pw2, deactivated) are registered; no user has id 3
\* or email c@x.org.
AuthInit ==
    /\ users = {[id |-> 1, email |-> "a@x.org",
                 hashed_password |-> get_password_hash("pw1"),
                 is_active |-> TRUE],
                [id |-> 2, email |-> "b@x.org",
                 hashed_password |-> get_password_hash("pw2"),
                 is_active |-> FALSE]}
    /\ groups = {} /\ memberships = {}
    /\ events = {} /\ organizers = {} /\ participants = {}
    /\ polls = {} /\ questions = {} /\ options = {} /\ votes = {}
    /\ ticket_types = {} /\ tickets = {}
    /\ shopping_items = {} /\ carpool_offers = {}
    /\ threads = {} /\ messages = {}
    /\ photo_albums = {} /\ photos = {} /\ photo_comments = {}
    /\ seq = [EmptySeq EXCEPT !["users"] = 2]
    /\ req = [r \in Sessions |-> Idle]
    /\ started = 0
    /\ last = NoResponse

\* The requests that authenticate, interleaved at their store calls.
SpecAuth == AuthInit /\ [][
        \E r \in Sessions :
            \/ \E token \in Tokens : read_current_user(r, token)
            \/ \E username \in {"a@x.org", "b@x.org", "c@x.org"},
                  password \in {"pw1", "pw2"} :
                   login_for_access_token(r, username, password)
            \/ get_current_user(r)
            \/ check_credentials(r)
            \/ session_commit(r)
    ]_vars

\* POST /auth/register is called with the payload's email and password.
register_user(r, email, password) ==
    /\ CanStart(r)
    /\ started' = started + 1
    /\ req' = [req EXCEPT ![r] =
                 Begin(r, "register_user", 0,
                       [NoArgs EXCEPT !.username = email,
                                      !.password = password],
                       "check_existing")]
    /\ UNCHANGED <<tables, seq, last>>

\* register_user: select(User).where(User.email == user_in.email).
check_existing_user(r) ==
    /\ req[r].op = "register_user" /\ req[r].pc = "check_existing"
    /\ LET found == {u \in Visible(r, "users", users) :
                        u.email = req[r].a.username}
       IN  IF Cardinality(found) > 1
           THEN HTTPException(r, 500, "MultipleResultsFound")
           ELSE IF found # {}
           THEN HTTPException(r, 400, "Email already registered")
           ELSE Goto(r, "insert_user") /\ UNCHANGED <<tables, seq, started>>

\* email: str = Field(index=True, unique=True) on users.
unique_email(row, rows) == ~\E u \in rows : u.email = row.email

\* register_user: session.add(user); flush().  The INSERT waits for the
\* session that has inserted the same email and not yet committed, and fails
\* on the UNIQUE constraint (IntegrityError, which nothing catches) when the
\* email is stored.
insert_user(r) ==
    /\ req[r].op = "register_user" /\ req[r].pc = "insert_user"
    /\ LET row == [id |-> seq["users"] + 1, email |-> req[r].a.username,
                   hashed_password |-> get_password_hash(req[r].a.password),
                   is_active |-> TRUE]
       IN  /\ unique_email(row, OthersInserted(r, "users"))
           /\ IF unique_email(row, Visible(r, "users", users))
              THEN /\ seq' = [seq EXCEPT !["users"] = @ + 1]
                   /\ req' = [req EXCEPT
                        ![r].pc = "commit",
                        ![r].actor = row.id,
                        ![r].res = [code |-> 201, detail |-> ""],
                        ![r].tx.ins = @ \cup {<<"users", row>>}]
                   /\ UNCHANGED <<tables, started, last>>
              ELSE HTTPException(r, 500, "IntegrityError")

\* Registrations and logins, interleaved at their store calls.
SpecRegister == AuthInit /\ [][
        \E r \in Sessions :
            \/ \E email \in {"a@x.org", "c@x.org"} :
                   register_user(r, email, "pw1")
            \/ \E username \in {"c@x.org"} :
                   login_for_access_token(r, username, "pw1")
            \/ check_existing_user(r)
            \/ insert_user(r)
            \/ check_credentials(r)
            \/ session_commit(r)
    ]_vars

(***************************************************************************)
(* Albums, photos and comments (src/app/routers/media.py).                 *)
(***************************************************************************)
\* create_album or list_albums is called on an event, add_photo or
\* list_photos on an album, add_photo_comment or list_photo_comments on a
\* photo: id is the id of the path.
media_request(r, op, actor, id) ==
    /\ CanStart(r)
    /\ authenticated(actor)
    /\ started' = started + 1
    /\ req' = [req EXCEPT ![r] =
         CASE op \in {"create_album", "list_albums"} ->
                  Begin(r, op, actor, [NoArgs EXCEPT !.event_id = id],
                        "get_event")
           [] op \in {"add_photo", "list_photos"} ->
                  Begin(r, op, actor, [NoArgs EXCEPT !.album_id = id],
                        "get_album")
           [] op \in {"add_photo_comment", "list_photo_comments"} ->
                  Begin(r, op, actor, [NoArgs EXCEPT !.photo_id = id],
                        "get_photo")]
    /\ UNCHANGED <<tables, seq, last>>

\* _get_event of media.py.
get_media_event(r) ==
    /\ req[r].op \in {"create_album", "list_albums"} /\ req[r].pc = "get_event"
    /\ IF ~\E e \in Visible(r, "events", events) : e.id = req[r].a.event_id
       THEN HTTPException(r, 404, "Event not found")
       ELSE /\ req' = [req EXCEPT ![r].pc = "ensure_access",
                                  ![r].loc.event_id = req[r].a.event_id]
            /\ UNCHANGED <<tables, seq, started, last>>

\* _get_photo: the photo of the path, whose album_id is looked up next.
get_photo(r) ==
    /\ req[r].op \in {"add_photo_comment", "list_photo_comments"}
    /\ req[r].pc = "get_photo"
    /\ LET found == {p \in Visible(r, "photos", photos) :
                        p.id = req[r].a.photo_id}
       IN  IF found = {}
           THEN HTTPException(r, 404, "Photo not found")
           ELSE /\ req' = [req EXCEPT
                     ![r].pc = "get_album",
                     ![r].loc.album_id = (CHOOSE p \in found : TRUE).album_id]
                /\ UNCHANGED <<tables, seq, started, last>>

\* _get_album: the album of the path (add_photo, list_photos) or of the
\* photo (add_photo_comment, list_photo_comments); its event_id is the one
\* the access guard is given.
get_album(r) ==
    /\ req[r].op \in {"add_photo", "list_photos", "add_photo_comment",
                      "list_photo_comments"}
    /\ req[r].pc = "get_album"
    /\ LET album_id == IF req[r].op \in {"add_photo", "list_photos"}
                       THEN req[r].a.album_id ELSE req[r].loc.album_id
           found == {a \in Visible(r, "photo_albums", photo_albums) :
                        a.id = album_id}
       IN  IF found = {}
           THEN HTTPException(r, 404, "Album not found")
           ELSE /\ req' = [req EXCEPT
                     ![r].pc = "ensure_access",
                     ![r].loc.album_id = album_id,
                     ![r].loc.event_id = (CHOOSE a \in found : TRUE).event_id]
                /\ UNCHANGED <<tables, seq, started, last>>

\* _ensure_event_access: a participant row, or else an organizer row, of the
\* event and the user.  The three list handlers only read after the guard
\* and answer 200.
ensure_event_access(r) ==
    /\ req[r].op \in {"create_album", "list_albums", "add_photo",
                      "list_photos", "add_photo_comment",
                      "list_photo_comments"}
    /\ req[r].pc = "ensure_access"
    /\ LET participant == link_of(Visible(r, "participants", participants),
                                  req[r].loc.event_id, req[r].actor)
           organizer == link_of(Visible(r, "organizers", organizers),
                                req[r].loc.event_id, req[r].actor)
       IN  IF Cardinality(participant) > 1
              \/ (participant = {} /\ Cardinality(organizer) > 1)
           THEN HTTPException(r, 500, "MultipleResultsFound")
           ELSE IF participant = {} /\ organizer = {}
           THEN HTTPException(r, 403, "Event access required")
           ELSE IF req[r].op \in {"list_albums", "list_photos",
                                  "list_photo_comments"}
           THEN /\ req' = [req EXCEPT ![r].pc = "commit",
                                      ![r].res = [code |-> 200, detail |-> ""]]
                /\ UNCHANGED <<tables, seq, started, last>>
           ELSE Goto(r, "insert") /\ UNCHANGED <<tables, seq, started>>

\* create_album, add_photo, add_photo_comment: session.add(row); flush().
\* The row names the event, the album or the photo the handler has loaded.
insert_media(r) ==
    /\ req[r].op \in {"create_album", "add_photo", "add_photo_comment"}
    /\ req[r].pc = "insert"
    /\ LET tbl == CASE req[r].op = "create_album" -> "photo_albums"
                    [] req[r].op = "add_photo" -> "photos"
                    [] req[r].op = "add_photo_comment" -> "photo_comments"
           id == seq[tbl] + 1
           row == CASE req[r].op = "create_album" ->
                           [id |-> id, event_id |-> req[r].loc.event_id,
                            created_by_id |-> req[r].actor]
                    [] req[r].op = "add_photo" ->
                           [id |-> id, album_id |-> req[r].loc.album_id,
                            uploaded_by_id |-> req[r].actor]
                    [] req[r].op = "add_photo_comment" ->
                           [id |-> id, photo_id |-> req[r].a.photo_id,
                            author_id |-> req[r].actor]
       IN  /\ seq' = [seq EXCEPT ![tbl] = id]
           /\ req' = [req EXCEPT
                ![r].pc = "commit",
                ![r].res = [code |-> 201, detail |-> ""],
                ![r].tx.ins = @ \cup {<<tbl, row>>}]
           /\ UNCHANGED <<tables, started, last>>

\* The store when the media requests arrive: users 1, 2 and 3 are
\* registered; user 1 has created events 1 and 2 and is their organizer,
\* user 2 has joined event 1 and user 3 event 2; album 1 of event 1 holds
\* photo 1, album 2 of event 2 is empty.
MediaInit ==
    /\ users = {[id |-> 1], [id |-> 2], [id |-> 3]}
    /\ groups = {} /\ memberships = {}
    /\ events = {Event(1, 1, None, Defaults), Event(2, 1, None, Defaults)}
    /\ organizers = {[id |-> 1, event_id |-> 1, user_id |-> 1],
                     [id |-> 2, event_id |-> 2, user_id |-> 1]}
    /\ participants = {[id |-> 1, event_id |-> 1, user_id |-> 2],
                       [id |-> 2, event_id |-> 2, user_id |-> 3]}
    /\ polls = {} /\ questions = {} /\ options = {} /\ votes = {}
    /\ ticket_types = {} /\ tickets = {}
    /\ shopping_items = {} /\ carpool_offers = {}
    /\ threads = {} /\ messages = {}
    /\ photo_albums = {[id |-> 1, event_id |-> 1, created_by_id |-> 1],
                       [id |-> 2, event_id |-> 2, created_by_id |-> 1]}
    /\ photos = {[id |-> 1, album_id |-> 1, uploaded_by_id |-> 2]}
    /\ photo_comments = {}
    /\ seq = [EmptySeq EXCEPT !["users"] = 3, !["events"] = 2,
                              !["organizers"] = 2, !["participants"] = 2,
                              !["photo_albums"] = 2, !["photos"] = 1]
    /\ req = [r \in Sessions |-> Idle]
    /\ started = 0
    /\ last = NoResponse

\* The media requests, interleaved at their store calls; id 2 names no
\* photo before one is added.
SpecMedia ==
    MediaInit /\ [][
        \E r \in Sessions :
            \/ \E op \in {"create_album", "list_albums", "add_photo",
                          "list_photos", "add_photo_comment",
                          "list_photo_comments"},
                  actor \in UserIds, id \in 1..2 :
                   media_request(r, op, actor, id)
            \/ get_media_event(r)
            \/ get_photo(r)
            \/ get_album(r)
            \/ ensure_event_access(r)
            \/ insert_media(r)
            \/ session_commit(r)
    ]_vars

(***************************************************************************)
(* The roles of a user in an event (src/app/routers/events.py) and the     *)
(* guard of the event's albums (src/app/routers/media.py).                 *)
(***************************************************************************)
\* The store when user 1 has created event 1, is its organizer and has
\* joined it as a participant, as user 2 has.
RoleInit ==
    /\ users = {[id |-> 1], [id |-> 2]}
    /\ groups = {} /\ memberships = {}
    /\ events = {Event(1, 1, None, Defaults)}
    /\ organizers = {[id |-> 1, event_id |-> 1, user_id |-> 1]}
    /\ participants = {[id |-> 1, event_id |-> 1, user_id |-> 1],
                       [id |-> 2, event_id |-> 1, user_id |-> 2]}
    /\ polls = {} /\ questions = {} /\ options = {} /\ votes = {}
    /\ ticket_types = {} /\ tickets = {}
    /\ shopping_items = {} /\ carpool_offers = {}
    /\ threads = {} /\ messages = {}
    /\ photo_albums = {} /\ photos = {} /\ photo_comments = {}
    /\ seq = [EmptySeq EXCEPT !["users"] = 2, !["events"] = 1,
                              !["organizers"] = 1, !["participants"] = 2]
    /\ req = [r \in Sessions |-> Idle]
    /\ started = 0
    /\ last = NoResponse

\* The event requests and list_albums, one request after another, from the
\* store without events or from the store of RoleInit.
SpecRoles ==
    (EventInit \/ RoleInit) /\ [][
        \E r \in Sessions :
            /\ Alone(r)
            /\ \/ EventStep(r)
               \/ \E actor \in UserIds, e \in 1..MaxEvents :
                      media_request(r, "list_albums", actor, e)
               \/ get_media_event(r)
               \/ ensure_event_access(r)
    ]_vars

(***************************************************************************)
(* Claims about ticketing.                                                 *)
(***************************************************************************)
Sold(ticket_type_id) ==
    Cardinality({t \in tickets : t.ticket_type_id = ticket_type_id})
TypeExists(ticket_type_id) == \E t \in ticket_types : t.id = ticket_type_id
Quantity(ticket_type_id) == Row(ticket_types, ticket_type_id).quantity
HoldsTicket(ticket_type_id, purchaser_email) ==
    \E t \in tickets : /\ t.ticket_type_id = ticket_type_id
                       /\ t.purchaser_email = purchaser_email
Purchasing(r) == req[r].op = "purchase_ticket" /\ InFlight(r)
\* Request r is answered in this step: `last` becomes its response.
Answered(r) == InFlight(r) /\ req'[r] = Idle
NoMoreTickets == [code |-> 400, detail |-> "No more tickets available"]
AlreadyHasTicket == [code |-> 400, detail |-> "This attendee already has a ticket"]

\* C1: with purchase requests interleaved at their store calls, the committed
\* tickets of a ticket type never outnumber its quantity (the purchase racing
\* with the one that sells the last ticket is the one that must be refused
\* with "No more tickets available").
C1_CapacityUnderConcurrency ==
    \A t \in ticket_types : Sold(t.id) <= t.quantity

\* C2: with purchases run one after another, a purchase of a type whose
\* tickets already number its quantity or more ends in 400 "No more tickets
\* available" and adds no ticket, and no type ever has more tickets than its
\* quantity.
C2_SoldOutStep ==
    \A r \in Sessions :
        (/\ Purchasing(r)
         /\ TypeExists(req[r].a.ticket_type_id)
         /\ Sold(req[r].a.ticket_type_id) >= Quantity(req[r].a.ticket_type_id))
        => /\ tickets' = tickets
           /\ req'[r].pc \in {"get_ticket_type", "count_sold", "idle"}
           /\ Answered(r) => last'.res = NoMoreTickets
C2_Capacity == \A t \in ticket_types : Sold(t.id) <= t.quantity
C2_SoldOutRefused == [](C2_Capacity) /\ [][C2_SoldOutStep]_vars

\* C2 witness: a purchase was refused on a type of quantity >= 1 all of whose
\* tickets are sold.
C2_Witness ==
    /\ last.op = "purchase_ticket"
    /\ last.res = NoMoreTickets
    /\ TypeExists(last.a.ticket_type_id)
    /\ Quantity(last.a.ticket_type_id) >= 1
    /\ Sold(last.a.ticket_type_id) = Quantity(last.a.ticket_type_id)

\* C3: in every reachable state, also with interleaved purchases, no two
\* committed tickets of one ticket type have the same purchaser email.
C3_EmailUniquePerType ==
    \A t1, t2 \in tickets :
        (/\ t1.ticket_type_id = t2.ticket_type_id
         /\ t1.purchaser_email = t2.purchaser_email) => t1 = t2

\* C4: with purchases run one after another, a purchase whose email already
\* holds a ticket of the type (capacity left) ends in 400 and leaves the
\* tickets as they are; a purchase with a new email on a type with capacity
\* left does not fail, and when it completes it is a 201 that adds exactly
\* the one ticket for (type, email).
C4_Step ==
    \A r \in Sessions :
        LET id == req[r].a.ticket_type_id
            email == req[r].a.purchaser_email
        IN  (Purchasing(r) /\ TypeExists(id) /\ Sold(id) < Quantity(id))
            => IF HoldsTicket(id, email)
               THEN /\ tickets' = tickets
                    /\ req'[r].pc \notin {"insert", "commit"}
                    /\ Answered(r) => last'.res = AlreadyHasTicket
               ELSE IF Answered(r)
                    THEN /\ last'.res.code = 201
                         /\ \E t \in tickets' :
                               /\ t.ticket_type_id = id
                               /\ t.purchaser_email = email
                               /\ tickets' = tickets \cup {t}
                               /\ t \notin tickets
                    ELSE tickets' = tickets
C4_DuplicateEmailRefused == [][C4_Step]_vars

\* C4 witness: a purchase was refused for its email on a type that still has
\* capacity, after the first purchase with that email succeeded.
C4_Witness ==
    /\ last.op = "purchase_ticket"
    /\ last.res = AlreadyHasTicket
    /\ Sold(last.a.ticket_type_id) < Quantity(last.a.ticket_type_id)
    /\ HoldsTicket(last.a.ticket_type_id, last.a.purchaser_email)

(***************************************************************************)
(* Claims about groups.                                                    *)
(***************************************************************************)
Members(group_id, user_id) ==
    {m \in memberships : m.group_id = group_id /\ m.user_id = user_id}
UserAlreadyMember == [code |-> 400, detail |-> "User already member"]

\* C5: whatever the interleaving of create_group, add_group_member,
\* update_group_member and remove_group_member, the committed memberships
\* hold at most one row per (group, user); and an add_group_member whose pair
\* has a membership when the handler looks for it answers 400 "User already
\* member" and changes no membership.
C5_OnePerPair ==
    \A m1, m2 \in memberships :
        (m1.group_id = m2.group_id /\ m1.user_id = m2.user_id) => m1 = m2
C5_ConflictStep ==
    \A r \in Sessions :
        (/\ req[r].op = "add_group_member" /\ req[r].pc = "check_existing"
         /\ Members(req[r].a.group_id, req[r].a.user_id) # {}
         /\ req'[r] # req[r])
        => /\ Answered(r)
           /\ last'.res = UserAlreadyMember
           /\ memberships' = memberships
C5_MembershipUnique == [](C5_OnePerPair) /\ [][C5_ConflictStep]_vars

\* C5 witness: an admin added a user, a second add_group_member of the same
\* user was refused, and the pair has its one membership.
C5_Witness ==
    /\ last.op = "add_group_member"
    /\ last.res = UserAlreadyMember
    /\ last.a.user_id # last.actor
    /\ Cardinality(Members(last.a.group_id, last.a.user_id)) = 1

(***************************************************************************)
(* Claims about events.                                                    *)
(***************************************************************************)
OrganizerRows(event_id, user_id) ==
    {o \in organizers : o.event_id = event_id /\ o.user_id = user_id}
ParticipantRows(event_id, user_id) ==
    {p \in participants : p.event_id = event_id /\ p.user_id = user_id}
Repeats(list) == \E i, j \in DOMAIN list : i # j /\ list[i] = list[j]

\* C6: whatever the interleaving of create_event, add_event_organizer,
\* add_event_participant and remove_event_participant, create_event with a
\* repeated organizer_ids list or one naming the creator included, the
\* committed rows hold at most one organizer row and at most one participant
\* row per (event, user).
C6_OneLinkPerPair ==
    \A e \in {x.id : x \in events} \cup {o.event_id : o \in organizers}
             \cup {p.event_id : p \in participants}, u \in UserIds :
        /\ Cardinality(OrganizerRows(e, u)) <= 1
        /\ Cardinality(ParticipantRows(e, u)) <= 1

\* C6 witness: a create_event whose organizer_ids repeats an id and names the
\* creator was committed, and a later add of an existing link was refused.
C6_Witness ==
    /\ last.op = "create_event" /\ last.res.code = 201
    /\ Repeats(last.a.organizer_ids)
    /\ \E i \in DOMAIN last.a.organizer_ids :
           last.a.organizer_ids[i] = last.actor
    /\ \E e \in events :
           /\ e.created_by_id = last.actor
           /\ Cardinality(OrganizerRows(e.id, last.actor)) = 1

(***************************************************************************)
(* Claims about polls.                                                     *)
(***************************************************************************)
Submitting(r) == req[r].op = "submit_poll_votes" /\ InFlight(r)
VotesOf(rows, question_id, voter_id) ==
    {v \in rows : v.question_id = question_id /\ v.voter_id = voter_id}
OptionIds == {o.id : o \in options}
\* The entry names a question of the poll and an option of that question.
EntryValid(poll_id, entry) ==
    /\ \E q \in questions : q.id = entry.question_id /\ q.poll_id = poll_id
    /\ \E o \in options : /\ o.id = entry.option_id
                          /\ o.question_id = entry.question_id
PollClosed == [code |-> 400, detail |-> "Poll is closed"]

\* C7: with the calls run one after another, a call {Q->B} of a voter whose
\* vote on Q is A (from an earlier call) succeeds and leaves exactly one vote
\* for (Q, voter), on option B; the tally of A is one lower, the tally of B
\* one higher, and the tally of every other option is as it was.
C7_Step ==
    \A r \in Sessions :
        (/\ Submitting(r) /\ Answered(r)
         /\ Len(last'.a.votes) = 1
         /\ EntryValid(last'.a.poll_id, last'.a.votes[1])
         /\ \E v \in votes : /\ v.question_id = last'.a.votes[1].question_id
                             /\ v.voter_id = last'.actor
                             /\ v.option_id # last'.a.votes[1].option_id)
        => LET Q == last'.a.votes[1].question_id
               B == last'.a.votes[1].option_id
               A == (CHOOSE v \in votes : /\ v.question_id = Q
                                          /\ v.voter_id = last'.actor).option_id
           IN  /\ last'.res.code = 200
               /\ Cardinality(VotesOf(votes', Q, last'.actor)) = 1
               /\ \A v \in VotesOf(votes', Q, last'.actor) : v.option_id = B
               /\ tally(votes', A) = tally(votes, A) - 1
               /\ tally(votes', B) = tally(votes, B) + 1
               /\ \A o \in OptionIds \ {A, B} :
                      tally(votes', o) = tally(votes, o)
C7_VoteReplaceLaw == [][C7_Step]_vars

\* C7 witness: the voter's committed vote on question 1 is option 1, and
\* their later call {1 -> 2} has sent the change of that row and is about to
\* commit it.
C7_Witness ==
    \E r \in Sessions :
        /\ req[r].op = "submit_poll_votes" /\ req[r].pc = "commit"
        /\ req[r].a.votes = <<[question_id |-> 1, option_id |-> 2]>>
        /\ \E v \in votes :
               /\ v.question_id = 1 /\ v.voter_id = req[r].actor
               /\ v.option_id = 1
               /\ req[r].tx.upd = {<<"votes", v.id, "option_id", 2>>}

\* C8: a call whose two entries name the same question, by a voter without a
\* vote on it, succeeds and leaves exactly one vote for (question, voter), on
\* the option of the second entry.
C8_Step ==
    \A r \in Sessions :
        (/\ Submitting(r) /\ Answered(r)
         /\ Len(last'.a.votes) = 2
         /\ last'.a.votes[1].question_id = last'.a.votes[2].question_id
         /\ EntryValid(last'.a.poll_id, last'.a.votes[1])
         /\ EntryValid(last'.a.poll_id, last'.a.votes[2])
         /\ VotesOf(votes, last'.a.votes[1].question_id, last'.actor) = {})
        => /\ last'.res.code = 200
           /\ Cardinality(VotesOf(votes', last'.a.votes[2].question_id,
                                  last'.actor)) = 1
           /\ \A v \in VotesOf(votes', last'.a.votes[2].question_id,
                               last'.actor) :
                  v.option_id = last'.a.votes[2].option_id
C8_SameQuestionTwice == [][C8_Step]_vars

\* C9: as soon as a call reads an entry that names a question outside the
\* poll or an option outside the question, it is answered 400 and the votes
\* are as they were; no step of a call other than its commit changes the
\* votes, so that the valid entries before the rejected one are not kept.
C9_Step ==
    \A r \in Sessions :
        (Submitting(r) /\ req'[r] # req[r])
        => LET a == IF Answered(r) THEN last'.a ELSE req'[r].a
           IN  /\ (\E i \in DOMAIN a.votes : ~EntryValid(a.poll_id, a.votes[i]))
                  => /\ Answered(r)
                     /\ last'.res.code = 400
                     /\ votes' = votes
               /\ req[r].pc # "commit" => votes' = votes
C9_AtomicSubmission == [][C9_Step]_vars

\* C9 witness: a call was rejected at its second entry, after a valid first
\* entry on a question the voter has no vote on, and the voter still has no
\* vote on it.
C9_Witness ==
    /\ last.op = "submit_poll_votes" /\ last.res.code = 400
    /\ Len(last.a.votes) = 2
    /\ EntryValid(last.a.poll_id, last.a.votes[1])
    /\ ~EntryValid(last.a.poll_id, last.a.votes[2])
    /\ VotesOf(votes, last.a.votes[1].question_id, last.actor) = {}

\* C10: with the calls run one after another, a call on a poll that is not
\* active is answered 400 "Poll is closed", whoever the actor; a call on an
\* active poll by an actor with neither a participant nor an organizer row
\* of the poll's event is answered 403; and neither changes a vote.
C10_Step ==
    \A r \in Sessions :
        (/\ Submitting(r) /\ req'[r] # req[r]
         /\ \E p \in polls : p.id = req[r].a.poll_id)
        => LET poll == CHOOSE p \in polls : p.id = req[r].a.poll_id
               member ==
                   \/ ParticipantRows(poll.event_id, req[r].actor) # {}
                   \/ OrganizerRows(poll.event_id, req[r].actor) # {}
           IN  /\ ~poll.is_active
                  => /\ Answered(r) /\ last'.res = PollClosed
                     /\ votes' = votes
               /\ (poll.is_active /\ ~member)
                  => /\ votes' = votes
                     /\ req'[r].pc \notin {"votes", "commit"}
                     /\ Answered(r) => last'.res.code = 403
C10_VotingGuards == [][C10_Step]_vars

\* C10 witness: a participant who has voted calls again after the poll was
\* deactivated and is answered "Poll is closed".
C10_Witness ==
    /\ last.op = "submit_poll_votes" /\ last.res = PollClosed
    /\ ParticipantRows(1, last.actor) # {}
    /\ \E v \in votes : v.voter_id = last.actor
    /\ \E p \in polls : p.id = last.a.poll_id /\ ~p.is_active

(***************************************************************************)
(* Claims about the optional features of an event.                         *)
(***************************************************************************)
\* A response is sent in this step (create_ticket_type runs in one step and
\* uses no request slot).
Responded ==
    \/ \E r \in Sessions : Answered(r)
    \/ started' = started + 1 /\ UNCHANGED req
\* The flag of the event that an operation depends on.
Flag(op, event) ==
    CASE op = "add_shopping_item" -> event.shopping_list_enabled
      [] op = "create_carpool_offer" -> event.carpool_enabled
      [] op = "create_ticket_type" -> event.billetterie_enabled
      [] op = "create_poll" -> event.polls_enabled
Gated == {"add_shopping_item", "create_carpool_offer", "create_ticket_type",
          "create_poll"}

\* C11: a request that creates a shopping item, a carpool offer, a ticket
\* type or a poll on an existing event whose flag for that feature is false
\* is answered 400, whoever the actor is, and creates no row.
C11_Step ==
    (/\ Responded
     /\ last'.op \in Gated
     /\ \E e \in events : e.id = last'.a.event_id /\ ~Flag(last'.op, e))
    => last'.res.code = 400 /\ UNCHANGED tables
C11_ToggleGating == [][C11_Step]_vars

(***************************************************************************)
(* Claims about participants, atomicity and errors.                        *)
(***************************************************************************)
AddingParticipant(r) == req[r].op = "add_event_participant" /\ InFlight(r)

\* C12: an add_event_participant whose target is not the actor, by an actor
\* without an organizer row for the event, is answered 403 and leaves the
\* participants as they were (so it is answered 201 only to an organizer);
\* an add_event_participant whose target is the actor never meets the
\* organizer guard and is never answered 403.
C12_Step ==
    \A r \in Sessions :
        /\ (/\ AddingParticipant(r) /\ Answered(r)
            /\ last'.a.user_id # last'.actor
            /\ OrganizerRows(last'.a.event_id, last'.actor) = {})
           => /\ last'.res.code = 403
              /\ participants' = participants
        /\ (/\ AddingParticipant(r)
            /\ req[r].a.user_id = req[r].actor)
           => /\ req[r].pc # "ensure_organizer"
              /\ Answered(r) => last'.res.code # 403
C12_SelfServiceParticipant == [][C12_Step]_vars

\* C12 witness: a user who organizes nothing is a participant of an event
\* that has no organizer (only a self-service add can have made the row), and
\* the same user's add of another user to that event was answered 403.
C12_Witness ==
    /\ last.op = "add_event_participant" /\ last.res.code = 403
    /\ last.a.user_id # last.actor
    /\ ParticipantRows(last.a.event_id, last.actor) # {}
    /\ \A o \in organizers : o.event_id # last.a.event_id
    /\ ParticipantRows(last.a.event_id, last.a.user_id) = {}

\* The creator of group g holds its membership with both flags.
CreatorIsAdmin(g, rows) ==
    \E m \in rows : /\ m.group_id = g.id /\ m.user_id = g.created_by_id
                    /\ m.is_admin /\ m.can_create_events

\* C13 as stated: in every committed state, every group has the membership
\* of its creator with is_admin and can_create_events.
C13_CreatorAlwaysAdmin == \A g \in groups : CreatorIsAdmin(g, memberships)

\* C13, amended: the step that commits a group commits the membership of its
\* creator with is_admin and can_create_events in the same step, so that no
\* request reads a group that was committed without it; afterwards that
\* membership changes only by the commit of a remove_group_member or an
\* update_group_member.
C13_Step ==
    /\ \A g \in groups' \ groups : CreatorIsAdmin(g, memberships')
    /\ \A g \in groups \cap groups' :
           (CreatorIsAdmin(g, memberships) /\ ~CreatorIsAdmin(g, memberships'))
           => \E r \in Sessions :
                  /\ req[r].op \in {"remove_group_member", "update_group_member"}
                  /\ req[r].pc = "commit" /\ Answered(r)
C13_CreateGroupAtomic == [][C13_Step]_vars

\* C13 witness: create_group was answered 201 and the committed group has
\* its creator's membership with both flags.
C13_Witness ==
    /\ last.op = "create_group" /\ last.res.code = 201
    /\ \E g \in groups : /\ g.created_by_id = last.actor
                         /\ CreatorIsAdmin(g, memberships)

CreatingPoll(r) == req[r].op = "create_poll" /\ InFlight(r)
QuestionsOf(poll_id) == {q \in questions : q.poll_id = poll_id}
OptionsOf(question_id) == {o \in options : o.question_id = question_id}
\* The questions of a payload read so far are all acceptable.
AllAnswerable(list) == \A i \in DOMAIN list : list[i] >= 2

\* C14: every committed poll has at least one question and every committed
\* question at least two options; a create_poll that passed the organizer
\* guard and whose payload has no question, or a question with fewer than two
\* options at any position, is answered 400; and a create_poll that is not
\* answered 201 leaves polls, questions and options as they were.
C14_Complete ==
    /\ \A p \in polls : QuestionsOf(p.id) # {}
    /\ \A q \in questions : Cardinality(OptionsOf(q.id)) >= 2
C14_Step ==
    \A r \in Sessions :
        (CreatingPoll(r) /\ Answered(r)) =>
            /\ (req[r].pc = "insert_poll" \/ ~AllAnswerable(last'.a.questions))
               => last'.res.code = 400
            /\ last'.res.code = 201
               => /\ last'.a.questions # <<>>
                  /\ AllAnswerable(last'.a.questions)
            /\ last'.res.code # 201
               => UNCHANGED <<polls, questions, options>>
C14_PollAllOrNothing == [](C14_Complete) /\ [][C14_Step]_vars

\* C14 witness: a create_poll whose second question has fewer than two
\* options was answered 400 after the poll and its first question had been
\* sent to the store, and no poll, question or option is committed.
C14_Witness ==
    /\ last.op = "create_poll" /\ last.res.code = 400
    /\ Len(last.a.questions) = 2
    /\ last.a.questions[1] >= 2 /\ last.a.questions[2] < 2
    /\ seq["polls"] = 1 /\ seq["questions"] = 1
    /\ polls = {} /\ questions = {} /\ options = {}

ItemRows(event_id, name) ==
    {i \in shopping_items : i.event_id = event_id /\ i.name = name}
ItemAlreadyRegistered ==
    [code |-> 400, detail |-> "Item already registered for this event"]

\* C15: an add_shopping_item that passed the feature and membership checks
\* and is answered while the store holds an item of the same event and name
\* (the sequential duplicate, or the loser of a race between two requests
\* that both passed the existence check) is answered 400 "Item already
\* registered for this event", and no request is answered with the store's
\* IntegrityError.
C15_Step ==
    \A r \in Sessions :
        Answered(r) =>
            /\ last'.res.detail # "IntegrityError"
            /\ (/\ req[r].op = "add_shopping_item"
                /\ req[r].pc \in {"check_existing", "insert"}
                /\ ItemRows(req[r].a.event_id, req[r].a.name) # {})
               => last'.res = ItemAlreadyRegistered
C15_RaceEndsInConflict == [][C15_Step]_vars

\* The answers of the checks of a handler: business rule, authorization and
\* existence of a referenced entity.
CheckFailed == {400, 403, 404}

\* C16: a request that one of its checks fails (400, 403, 404) has sent no
\* INSERT, UPDATE or DELETE to the store before that check: the work of its
\* session is empty when it is answered.
C16_Step ==
    \A r \in Sessions :
        (Answered(r) /\ last'.res.code \in CheckFailed) => req[r].tx = EmptyTx
C16_ChecksBeforeWrites == [][C16_Step]_vars

Success == {200, 201, 204}
\* The rows of the tables of the event endpoints once the work of request r
\* is committed.
Committed(r) ==
    <<Apply(req[r].tx, "events", events),
      Apply(req[r].tx, "organizers", organizers),
      Apply(req[r].tx, "participants", participants)>>

\* C17: the committed tables change only in the step that commits the
\* session of a request whose handler returned; that step applies all the
\* work of the session; a request is answered with a success code exactly in
\* that step; and a request answered with an error leaves every table as it
\* was, whatever its session had flushed.
C17_Step ==
    /\ tables' # tables
       => \E r \in Sessions : req[r].pc = "commit" /\ Answered(r)
    /\ \A r \in Sessions :
           Answered(r) =>
               /\ last'.res.code \in Success <=> req[r].pc = "commit"
               /\ req[r].pc = "commit"
                  => <<events', organizers', participants'>> = Committed(r)
               /\ last'.res.code \notin Success => tables' = tables
C17_CommitOrRollback == [][C17_Step]_vars

\* C17 witness: a create_event naming an organizer that does not exist was
\* answered 404 after its event had been sent to the store (the id sequence
\* has advanced), and no event and no organizer is committed.
C17_Witness ==
    /\ last.op = "create_event" /\ last.res.code = 404
    /\ last.res.detail = "Organizer not found"
    /\ seq["events"] = 1
    /\ events = {} /\ organizers = {}

(***************************************************************************)
(* Claims about discussion threads and messages.                           *)
(***************************************************************************)
Unset(id) == id = None
\* The ids of a thread or of a create_thread payload fit its context.
MatchesContext(t) ==
    /\ t.context = "group" => ~Unset(t.group_id) /\ Unset(t.event_id)
    /\ t.context = "event" => ~Unset(t.event_id) /\ Unset(t.group_id)

\* C18: every stored thread has exactly one of group_id and event_id set,
\* the one of its context; and a create_thread whose payload sets both ids,
\* or only the id of the other context, is refused and stores nothing.
C18_Step ==
    (/\ last' # last /\ last'.op = "create_thread"
     /\ ~MatchesContext(last'.a))
    => last'.res.code \notin Success /\ threads' = threads
C18_ExactlyOneContextId ==
    [](\A t \in threads : MatchesContext(t)) /\ [][C18_Step]_vars

ThreadOps == {"create_thread", "get_thread", "create_message", "list_messages"}
\* The actor is a member of the group, or a participant or an organizer of
\* the event, that the context of thread (or payload) t names.
HasAccess(actor, t) ==
    IF t.context = "group" THEN Members(t.group_id, actor) # {}
    ELSE ParticipantRows(t.event_id, actor) # {}
         \/ OrganizerRows(t.event_id, actor) # {}
\* The thread a response is about: the payload of create_thread, the stored
\* thread of the other operations (NoRow when there is none).
Subject(resp) ==
    IF resp.op = "create_thread" THEN resp.a
    ELSE IF \E t \in threads : t.id = resp.a.thread_id
         THEN CHOOSE t \in threads : t.id = resp.a.thread_id
         ELSE NoRow

\* C19: create_thread, get_thread, create_message and list_messages are
\* answered with success only to an actor who is a member of the group (for
\* a thread of context group) or a participant or organizer of the event (for
\* a thread of context event); on an existing thread, or a payload accepted
\* by the validation, any other actor is answered 403 and no table changes.
\* The context is the payload's for create_thread and the stored thread's
\* for the three other operations.
C19_Step ==
    \A r \in Sessions :
        (Answered(r) /\ req[r].op \in ThreadOps) =>
            LET t == Subject(last')
            IN  /\ last'.res.code \in Success
                   => t # NoRow /\ HasAccess(last'.actor, t)
                /\ (t # NoRow /\ ~HasAccess(last'.actor, t))
                   => last'.res.code = 403 /\ tables' = tables
C19_ThreadAccessByContext == [][C19_Step]_vars

\* C19 witness: a participant of event 1 has posted a message in the thread
\* of that event, and a member of group 1 who takes no part in the event was
\* refused the list of the messages of that thread.
C19_Witness ==
    /\ last.op = "list_messages" /\ last.res.code = 403
    /\ Members(1, last.actor) # {}
    /\ \E t \in threads :
           /\ t.id = last.a.thread_id /\ t.context = "event"
           /\ \E m \in messages :
                  /\ m.thread_id = t.id
                  /\ ParticipantRows(t.event_id, m.author_id) # {}

\* parent_id is the id of a message of thread thread_id.
ParentInThread(parent_id, thread_id) ==
    \E m \in messages : m.id = parent_id /\ m.thread_id = thread_id
ParentNotFound ==
    [code |-> 400, detail |-> "Parent message not found in this thread"]

\* C20: every stored message with a parent_id has for parent a stored message
\* of the same thread; and a create_message that reached the parent check
\* with a parent_id that is not the id of a message of its thread is answered
\* 400 and stores no message.
C20_ParentsInThread ==
    \A m \in messages :
        ~Unset(m.parent_id) => ParentInThread(m.parent_id, m.thread_id)
C20_Step ==
    \A r \in Sessions :
        (/\ req[r].op = "create_message" /\ Answered(r)
         /\ req[r].pc \in {"check_parent", "insert_message", "commit"}
         /\ ~Unset(last'.a.parent_id)
         /\ ~ParentInThread(last'.a.parent_id, last'.a.thread_id))
        => last'.res = ParentNotFound /\ messages' = messages
C20_ParentInSameThread == [](C20_ParentsInThread) /\ [][C20_Step]_vars

(***************************************************************************)
(* Claims about authorization guards.                                      *)
(***************************************************************************)
MemberOps == {"add_group_member", "update_group_member", "remove_group_member"}
IsGroupAdmin(group_id, user_id) ==
    \E m \in Members(group_id, user_id) : m.is_admin
UserExists(user_id) == \E u \in users : u.id = user_id

\* C21: with the requests run one after another, an add_group_member,
\* update_group_member or remove_group_member by an actor who holds no
\* membership of the group with is_admin (no membership, or one without
\* is_admin) is answered 403 and leaves the memberships as they were; for an
\* admin actor, adding a user that does not exist, and updating or removing a
\* membership that does not exist, is answered 404 and leaves the memberships
\* as they were.
C21_Step ==
    \A r \in Sessions :
        (Answered(r) /\ req[r].op \in MemberOps) =>
            LET g == last'.a.group_id
                u == last'.a.user_id
            IN  /\ ~IsGroupAdmin(g, last'.actor)
                   => last'.res.code = 403 /\ memberships' = memberships
                /\ (/\ IsGroupAdmin(g, last'.actor)
                    /\ Members(g, u) = {}
                    /\ req[r].op = "add_group_member" => ~UserExists(u))
                   => last'.res.code = 404 /\ memberships' = memberships
C21_AdminGuard == [][C21_Step]_vars

\* C21 witness: a member of a group without is_admin asked to add a user and
\* was answered 403.
C21_Witness ==
    /\ last.op = "add_group_member" /\ last.res.code = 403
    /\ Members(last.a.group_id, last.actor) # {}
    /\ ~IsGroupAdmin(last.a.group_id, last.actor)
    /\ Members(last.a.group_id, last.a.user_id) = {}

\* The user holds a membership of the group with is_admin or
\* can_create_events.
CanCreateGroupEvent(group_id, user_id) ==
    \E m \in Members(group_id, user_id) : m.is_admin \/ m.can_create_events

\* C22: every event with a group_id was created by a user who holds a
\* membership of that group with is_admin or can_create_events (no request
\* changes the memberships while the events are created); and a create_event
\* whose payload has a group_id, by an actor without such a membership, is
\* answered 403 and creates no event.
C22_GroupEventsByManagers ==
    \A e \in events :
        ~Unset(e.group_id) => CanCreateGroupEvent(e.group_id, e.created_by_id)
C22_Step ==
    \A r \in Sessions :
        (/\ req[r].op = "create_event" /\ Answered(r)
         /\ ~Unset(last'.a.group_id)
         /\ ~CanCreateGroupEvent(last'.a.group_id, last'.actor))
        => last'.res.code = 403 /\ events' = events
C22_GroupEventGuard == [](C22_GroupEventsByManagers) /\ [][C22_Step]_vars

OrganizerOnly == {"create_poll", "create_ticket_type"}
TicketingOn(event_id) ==
    \E e \in events : e.id = event_id /\ e.billetterie_enabled

\* C23 as stated: a create_poll or create_ticket_type by an actor who is not
\* an organizer of the event is answered 403 and creates no poll, question,
\* option or ticket type.
C23_StatedStep ==
    (/\ Responded /\ last'.op \in OrganizerOnly
     /\ OrganizerRows(last'.a.event_id, last'.actor) = {})
    => /\ last'.res.code = 403
       /\ UNCHANGED <<polls, questions, options, ticket_types>>
C23_AlwaysForbidden == [][C23_StatedStep]_vars

\* C23, amended: a create_poll or create_ticket_type by an actor who is not
\* an organizer of the event (a participant included) is refused and creates
\* no poll, question, option or ticket type; the answer is 403 for
\* create_poll, and for create_ticket_type on an event with ticketing
\* enabled (the event is looked up first: 404 without event, 400 with
\* ticketing disabled).
C23_Step ==
    (/\ Responded /\ last'.op \in OrganizerOnly
     /\ OrganizerRows(last'.a.event_id, last'.actor) = {})
    => /\ last'.res.code \notin Success
       /\ UNCHANGED <<polls, questions, options, ticket_types>>
       /\ (last'.op = "create_poll" \/ TicketingOn(last'.a.event_id))
          => last'.res.code = 403
C23_OrganizerOnly == [][C23_Step]_vars

\* C23 witness: a participant of an event with ticketing enabled asked to
\* create a ticket type and was answered 403; no ticket type exists.
C23_Witness ==
    /\ last.op = "create_ticket_type" /\ last.res.code = 403
    /\ ParticipantRows(last.a.event_id, last.actor) # {}
    /\ TicketingOn(last.a.event_id)
    /\ ticket_types = {}

(***************************************************************************)
(* Claims about shopping lists and carpooling.                             *)
(***************************************************************************)
EventMember(event_id, user_id) ==
    ParticipantRows(event_id, user_id) # {} \/ OrganizerRows(event_id, user_id) # {}
ShoppingOn(event_id) ==
    \E e \in events : e.id = event_id /\ e.shopping_list_enabled
Moves(r) == req'[r] # req[r]

C24_UniquePerEvent ==
    \A i, j \in shopping_items :
        (i.event_id = j.event_id /\ i.name = j.name) => i = j
\* An add_shopping_item that finds its name registered for its event is
\* answered 400 and adds nothing.
C24_Refused ==
    \A r \in Sessions :
        (/\ req[r].op = "add_shopping_item" /\ req[r].pc = "check_existing"
         /\ Moves(r)
         /\ ItemRows(req[r].a.event_id, req[r].a.name) # {})
        => /\ Answered(r) /\ last'.res.code = 400
           /\ shopping_items' = shopping_items
\* An add_shopping_item by a member of an event with a shopping list, whose
\* name is not registered for that event when it is answered, is accepted
\* whatever the names registered for other events.
C24_Accepted ==
    \A r \in Sessions :
        (/\ req[r].op = "add_shopping_item" /\ Answered(r)
         /\ ShoppingOn(req[r].a.event_id)
         /\ EventMember(req[r].a.event_id, req[r].actor)
         /\ ItemRows(req[r].a.event_id, req[r].a.name) = {})
        => /\ last'.res.code = 201
           /\ \E i \in shopping_items' \ shopping_items :
                  i.event_id = req[r].a.event_id /\ i.name = req[r].a.name

\* C24: after any interleaving of add_shopping_item requests no two shopping
\* items of one event have the same name; an add_shopping_item with a name
\* already registered for its event is answered 400 and adds nothing, and
\* the same name on a different event is accepted.
C24_UniqueItemNames ==
    [](C24_UniquePerEvent) /\ [][C24_Refused /\ C24_Accepted]_vars

\* C24 witness: a second add of a registered name has just been answered 400
\* while the same name is registered for both events.
C24_Witness ==
    /\ last.op = "add_shopping_item" /\ last.res.code = 400
    /\ \E i, j \in shopping_items :
           i.name = j.name /\ i.event_id # j.event_id
           /\ i.name = last.a.name

AddonOps == {"add_shopping_item", "list_shopping_items",
             "create_carpool_offer", "list_carpool_offers"}
ToggleOn(op, event_id) ==
    \E e \in events :
        /\ e.id = event_id
        /\ IF op \in {"add_shopping_item", "list_shopping_items"} THEN e.shopping_list_enabled
           ELSE e.carpool_enabled
C25_Step ==
    \A r \in Sessions :
        (req[r].op \in AddonOps /\ Answered(r)) =>
            /\ last'.res.code \in Success
                   => EventMember(req[r].a.event_id, req[r].actor)
            /\ (/\ ~EventMember(req[r].a.event_id, req[r].actor)
                /\ ToggleOn(req[r].op, req[r].a.event_id))
                   => /\ last'.res.code = 403
                      /\ UNCHANGED <<shopping_items, carpool_offers>>

\* C25: creating or listing shopping items or carpool offers of an event
\* succeeds only for a participant or an organizer of that event; any other
\* user is answered 403 on an event whose toggle is on, and nothing is
\* created.
C25_MembersOnly == [][C25_Step]_vars

\* C25 witness: a participant of another event, who is neither participant
\* nor organizer of this one, asked for the shopping list of this event,
\* which is enabled, and was answered 403.
C25_Witness ==
    /\ last.op = "list_shopping_items" /\ last.res.code = 403
    /\ ~EventMember(last.a.event_id, last.actor)
    /\ \E p \in participants : p.user_id = last.actor
    /\ ToggleOn(last.op, last.a.event_id)

(***************************************************************************)
(* Claims about what the poll and event reads report.                      *)
(***************************************************************************)
\* The PollVote rows of an option that request r reads from the store.
VoteRows(r, option_id) ==
    {v \in Apply(req[r].tx, "votes", votes) : v.option_id = option_id}
C26_Step ==
    \A r \in Sessions :
        (req[r].op \in {"submit_poll_votes", "get_poll"} /\ Answered(r) /\ last'.res.code = 200)
        => \A o \in DOMAIN serialize_poll(r) :
               serialize_poll(r)[o] = Cardinality(VoteRows(r, o))

\* C26: with the requests run one after another, the tally that a successful
\* get_poll or submit_poll_votes reports for an option is the number of
\* PollVote rows with that option_id that the request reads from the store
\* when it answers, the votes it has just applied included.
C26_TallyCountsRows == [][C26_Step]_vars

Elements(list) == {list[i] : i \in DOMAIN list}
OrganizersOf(rows, event_id) == {o.user_id : o \in {x \in rows : x.event_id = event_id}}
\* A create_event that succeeds commits, for the new event, the organizers
\* organizer_ids and the creator, and no other.
C27_Created ==
    \A r \in Sessions :
        (req[r].op = "create_event" /\ Answered(r) /\ last'.res.code = 201)
        => OrganizersOf(organizers', req[r].loc.event_id)
               = Elements(last'.a.organizer_ids) \cup {last'.actor}
\* No organizer row is ever taken away.
C27_Kept == \A o \in organizers : o \in organizers'
\* A get_event that succeeds reports the organizer rows and the participant
\* rows of the event in the store.
C27_Read ==
    \A r \in Sessions :
        (req[r].op = "get_event" /\ Answered(r) /\ last'.res.code = 200)
        => /\ req[r].loc.organizers
                  = {o \in organizers : o.event_id = req[r].a.event_id}
           /\ req[r].loc.participants
                  = {p \in participants : p.event_id = req[r].a.event_id}

\* C27: with the requests run one after another, a create_event that
\* succeeds leaves exactly organizer_ids and the creator as the organizers of
\* the new event, no organizer is removed afterwards, and get_event reports
\* the organizers and the participants that the event has in the store.
C27_OrganizersAndDetail == [][C27_Created /\ C27_Kept /\ C27_Read]_vars

\* C27 witness: get_event has just reported an event created with another
\* user in organizer_ids, which has both as organizers and a participant.
C27_Witness ==
    /\ last.op = "get_event" /\ last.res.code = 200
    /\ \E e \in events :
           /\ e.id = last.a.event_id
           /\ OrganizersOf(organizers, e.id) = {1, 2}
           /\ e.created_by_id = 1
           /\ ParticipantRows(e.id, 2) # {}

(***************************************************************************)
(* Claims about the sub-resources of an event.                             *)
(***************************************************************************)
CarpoolOn(event_id) ==
    \E e \in events : e.id = event_id /\ e.carpool_enabled
C28_ToggleOn ==
    /\ \A t \in ticket_types : TicketingOn(t.event_id)
    /\ \A i \in shopping_items : ShoppingOn(i.event_id)
    /\ \A c \in carpool_offers : CarpoolOn(c.event_id)
C28_Step ==
    \A r \in Sessions :
        (req[r].op = "purchase_ticket" /\ Answered(r) /\ last'.res.code = 201)
        => \E t \in ticket_types :
               t.id = req[r].a.ticket_type_id /\ TicketingOn(t.event_id)

\* C28: every ticket type, shopping item and carpool offer in the store
\* belongs to an event whose billetterie_enabled, shopping_list_enabled or
\* carpool_enabled flag is on, and a purchase_ticket, which names no actor,
\* succeeds only for a ticket type whose event has ticketing enabled.
C28_SubResourcesGated == [](C28_ToggleOn) /\ [][C28_Step]_vars

\* C28 witness: a ticket of a ticket type has just been sold without an
\* actor, and the event with carpooling only has a carpool offer.
C28_Witness ==
    /\ last.op = "purchase_ticket" /\ last.res.code = 201 /\ last.actor = 0
    /\ tickets # {}
    /\ \E c \in carpool_offers : ~ShoppingOn(c.event_id)

(***************************************************************************)
(* Claims about the guards as a whole.                                     *)
(***************************************************************************)
\* The program counters at which a handler calls one of its guards.
GuardPcs == {"ensure_admin", "ensure_can_manage", "ensure_organizer",
             "ensure_access"}
C29_Step ==
    \A r \in Sessions :
        (req[r].pc \in GuardPcs /\ Moves(r))
        => /\ UNCHANGED <<users, groups, memberships, events, organizers,
                          participants, polls, questions, options, votes,
                          ticket_types, tickets, shopping_items,
                          carpool_offers, threads, messages,
                          photo_albums, photos, photo_comments>>
           /\ InFlight(r)' => req'[r].tx = req[r].tx

\* C29: the step in which a handler evaluates a guard (group admin, group
\* member, can-manage-group-event, event organizer, event
\* participant-or-organizer) leaves every table unchanged, whether the guard
\* passes or raises, and sends no write to the store.
C29_GuardsReadOnly == [][C29_Step]_vars

\* C29 witness: a guard has refused one request with 403 and has let the
\* next request through, which is now at its first step after the guard.
C29_Witness ==
    /\ last.res.code = 403
    /\ last.res.detail = "Administrator privileges required"
    /\ \E r \in Sessions :
           /\ req[r].op = "add_group_member" /\ req[r].pc = "check_existing"
           /\ IsGroupAdmin(req[r].a.group_id, req[r].actor)

(***************************************************************************)
(* Claims about authentication.                                            *)
(***************************************************************************)
\* The token was issued by the server, has not expired and its subject is
\* the id of a user.
TokenOfUser(token) ==
    /\ token.signature = "secret_key" /\ ~token.expired
    /\ \E u \in users : str(u.id) = token.sub
\* The email and the password are those of a user.
CredentialsOfUser(username, password) ==
    \E u \in users : /\ u.email = username
                     /\ u.hashed_password = get_password_hash(password)
Unauthorized(r) == last'.res.code = 401 /\ UNCHANGED tables
C30_Token ==
    \A r \in Sessions :
        (/\ req[r].op = "read_current_user" /\ Answered(r)
         /\ ~TokenOfUser(req[r].a.token))
        => Unauthorized(r)
C30_Login ==
    \A r \in Sessions :
        (/\ req[r].op = "login_for_access_token" /\ Answered(r)
         /\ ~CredentialsOfUser(req[r].a.username, req[r].a.password))
        => Unauthorized(r)

\* C30: a request whose token is invalid or names no existing user, and a
\* login with an unknown email or a wrong password, are answered 401 and
\* change no table.
C30_FailedAuthIs401 == [][C30_Token /\ C30_Login]_vars

(***************************************************************************)
(* Claims about the reply graph of messages.                               *)
(***************************************************************************)

\* The messages a message's parent link leads to.
ParentOf(m) == {p \in messages : p.id = m.parent_id}

\* C31: the reply graph of the stored messages is acyclic: every message
\* that has a parent_id has a stored parent message, of a strictly smaller
\* id, so that following the parent links ends at a message without parent.
C31_ReplyGraphAcyclic ==
    \A m \in messages :
        m.parent_id # None =>
            /\ ParentOf(m) # {}
            /\ \A p \in ParentOf(m) : p.id < m.id

(***************************************************************************)
(* Claims about the dates of an event.                                     *)
(***************************************************************************)

\* The instant of an aware datetime, the wall clock time of a naive one.
Instant(d) == IF d.utcoffset = None THEN d.wall ELSE d.wall - d.utcoffset
Comparable(s, e) == (s.utcoffset = None) = (e.utcoffset = None)

\* A create_event whose payload ends no later than it starts is refused
\* (422) and stores nothing; so does every create_event that is not
\* answered 201; and no step changes the dates of a stored event.
C32_Step ==
    /\ (Responded /\ last'.op = "create_event"
        /\ Comparable(last'.a.start_date, last'.a.end_date)
        /\ Instant(last'.a.end_date) <= Instant(last'.a.start_date))
           => last'.res.code = 422
    /\ (Responded /\ last'.op = "create_event" /\ last'.res.code # 201)
           => UNCHANGED tables
    /\ \A e \in events : \A f \in events' :
           f.id = e.id => f.start_date = e.start_date /\ f.end_date = e.end_date

\* C32: every stored event ends after it starts; a create_event with
\* end_date <= start_date is refused and stores nothing, and no operation
\* changes the dates of an event afterwards.
C32_EndAfterStart ==
    /\ [](\A e \in events : e.end_date.wall > e.start_date.wall)
    /\ [][C32_Step]_vars

\* An event was created from a payload with dates in two time zones.
C32_Witness ==
    /\ last.op = "create_event" /\ last.res.code = 201
    /\ last.a.start_date.utcoffset # None
    /\ last.a.start_date.utcoffset # last.a.end_date.utcoffset
    /\ \E e \in events : e.end_date.wall > e.start_date.wall

(***************************************************************************)
(* Claims about albums, photos and comments.                               *)
(***************************************************************************)

MediaOps == {"create_album", "list_albums", "add_photo", "list_photos",
             "add_photo_comment", "list_photo_comments"}

\* The events that own what a media request names: the event of the path,
\* the event of the album, or the event of the album of the photo.
OwningEvents(op, a) ==
    CASE op \in {"create_album", "list_albums"} ->
             {e.id : e \in {x \in events : x.id = a.event_id}}
      [] op \in {"add_photo", "list_photos"} ->
             {al.event_id : al \in {x \in photo_albums : x.id = a.album_id}}
      [] op \in {"add_photo_comment", "list_photo_comments"} ->
             {al.event_id : al \in {x \in photo_albums :
                 \E p \in photos : p.id = a.photo_id /\ p.album_id = x.id}}

\* A media request succeeds only for a participant or organizer of the
\* owning event; any other user is answered 403 and nothing is created.
C33_Step ==
    \A r \in Sessions :
        (req[r].op \in MediaOps /\ Answered(r)) =>
            /\ last'.res.code \in Success
                   => \E e \in OwningEvents(req[r].op, req[r].a) :
                          EventMember(e, req[r].actor)
            /\ (/\ OwningEvents(req[r].op, req[r].a) # {}
                /\ \A e \in OwningEvents(req[r].op, req[r].a) :
                       ~EventMember(e, req[r].actor))
                   => /\ last'.res.code = 403
                      /\ UNCHANGED <<photo_albums, photos, photo_comments>>

\* C33: creating or listing albums, photos and comments succeeds only for a
\* participant or organizer of the event that owns the album; any other
\* user is answered 403 and nothing is created; every album names an
\* existing event, every photo an existing album and every comment an
\* existing photo.
C33_MediaContainment ==
    /\ [](/\ \A a \in photo_albums : \E e \in events : e.id = a.event_id
          /\ \A p \in photos : \E a \in photo_albums : a.id = p.album_id
          /\ \A c \in photo_comments : \E p \in photos : p.id = c.photo_id)
    /\ [][C33_Step]_vars

\* C33 witness: a participant of another event was refused the comments of
\* a photo, and a comment was stored on a photo added by a request.
C33_Witness ==
    /\ last.op \in {"add_photo_comment", "list_photo_comments"}
    /\ last.res.code = 403
    /\ \E p \in participants : p.user_id = last.actor
    /\ \E c \in photo_comments : c.photo_id = 2

(***************************************************************************)
(* Claims about registration.                                              *)
(***************************************************************************)

\* The users that hold an email.
UsersOfEmail(email) == {u \in users : u.email = email}

\* A registration of an email that belongs to a user is answered 400
\* 'Email already registered' and creates no user.
C34_Step ==
    \A r \in Sessions :
        (req[r].op = "register_user" /\ Answered(r)
         /\ UsersOfEmail(req[r].a.username) # {})
        => /\ last'.res = [code |-> 400, detail |-> "Email already registered"]
           /\ users' = users

\* C34: no two users have the same email, and registering an email that
\* already belongs to a user fails with 400 and creates no user, also when two
\* registrations of the same email run concurrently.
C34_UniqueEmail ==
    /\ [](\A u, v \in users : u.email = v.email => u.id = v.id)
    /\ [][C34_Step]_vars

(***************************************************************************)
(* Claims about the rows that link users to events.                        *)
(***************************************************************************)

\* The row names a stored event and a stored user.
Anchored(row) ==
    /\ \E e \in events : e.id = row.event_id
    /\ \E u \in users : u.id = row.user_id

\* add_event_organizer or add_event_participant for an event id that names
\* no event is answered 403 or 404 and stores no row.
C35_Step ==
    \A r \in Sessions :
        (/\ req[r].op \in {"add_event_organizer", "add_event_participant"}
         /\ Answered(r)
         /\ ~\E e \in events : e.id = req[r].a.event_id)
        => /\ last'.res.code \in {403, 404}
           /\ UNCHANGED <<organizers, participants>>

\* C35: every participant row and every organizer row names an existing
\* event and an existing user; adding a participant (the actor themself
\* included) or an organizer to an event that does not exist stores no row
\* and is answered NotFound or Forbidden.
C35_LinksAnchored ==
    /\ [](\A row \in organizers \cup participants : Anchored(row))
    /\ [][C35_Step]_vars

(***************************************************************************)
(* Claims about the administrators of a group.                             *)
(***************************************************************************)

\* C36: after any sequence of create_group, add_group_member,
\* update_group_member and remove_group_member, every group has at least one
\* membership with is_admin.
C36_AdminRemains ==
    \A g \in groups : \E m \in memberships : m.group_id = g.id /\ m.is_admin

(***************************************************************************)
(* Claims about the votes and the structure of a poll.                     *)
(***************************************************************************)

\* The number of votes on an option, and the sum of these numbers over a
\* set of options.
TallyOf(option_id) == Cardinality({v \in votes : v.option_id = option_id})
RECURSIVE SumOfTallies(_)
SumOfTallies(option_ids) ==
    IF option_ids = {} THEN 0
    ELSE LET o == CHOOSE x \in option_ids : TRUE
         IN  TallyOf(o) + SumOfTallies(option_ids \ {o})
VotersOn(question_id) ==
    {v.voter_id : v \in {x \in votes : x.question_id = question_id}}

\* C37: the option of every vote belongs to the question of the vote, and
\* for every question the tallies of its options add up to the number of
\* voters that hold a vote on the question.
C37_VotesMatchStructure ==
    /\ \A v \in votes : \E o \in options :
           o.id = v.option_id /\ o.question_id = v.question_id
    /\ \A q \in questions :
           SumOfTallies({o.id : o \in {x \in options : x.question_id = q.id}})
               = Cardinality(VotersOn(q.id))

\* C37 witness: a call that voted was answered 200 and two voters hold a
\* vote on one question.
C37_Witness ==
    /\ last.op = "submit_poll_votes" /\ last.res.code = 200
    /\ \E q \in questions : Cardinality(VotersOn(q.id)) = 2

(***************************************************************************)
(* Claims about the roles of a user in an event.                           *)
(***************************************************************************)

\* No step removes an organizer row; the commit of remove_event_participant
\* deletes the participant row of the named event and user and changes no
\* other row; a request refused deletes nothing; and an organizer of an
\* event passes the guard of the event's albums.
C38_Step ==
    /\ organizers \subseteq organizers'
    /\ \A r \in Sessions :
           (req[r].op = "remove_event_participant" /\ Answered(r))
           => /\ participants' =
                     IF last'.res.code = 204
                     THEN participants \ ParticipantRows(req[r].a.event_id,
                                                         req[r].a.user_id)
                     ELSE participants
              /\ UNCHANGED <<users, groups, memberships, events, organizers,
                             polls, questions, options, votes, ticket_types,
                             tickets, shopping_items, carpool_offers, threads,
                             messages, photo_albums, photos, photo_comments>>
    /\ \A r \in Sessions :
           (/\ req[r].op = "list_albums" /\ Answered(r)
            /\ OrganizerRows(req[r].a.event_id, req[r].actor) # {})
           => last'.res.code = 200

\* C38: an organizer of an event stays an organizer of it in every later
\* state; remove_event_participant deletes only the named participant row,
\* and a user who was organizer and participant still passes the
\* event-member guard after being removed as participant.
C38_OrganizerMonotonic == [][C38_Step]_vars

\* C38 witness: user 1, who was organizer and participant of event 1, has
\* been removed as participant and then was given the albums of the event.
C38_Witness ==
    /\ last.op = "list_albums" /\ last.res.code = 200
    /\ OrganizerRows(last.a.event_id, last.actor) # {}
    /\ ParticipantRows(last.a.event_id, last.actor) = {}
    /\ seq["participants"] = 2 /\ Cardinality(participants) = 1

====
